---- MODULE Spec2Model ----
(***************************************************************************)
(* Verification model of the trend dashboard client (alexbnewman/trends-app). *)
(*                                                                         *)
(* Part 1: the Trend Pattern Analyzer, TrendsService.analyzeTrendPattern   *)
(* with its helpers detectSeasonality and calculateSeasonalStrength        *)
(* (src/frontend/src/services/trends.tsx).                                 *)
(*                                                                         *)
(* Numbers.  The source computes in IEEE doubles.  The model computes in   *)
(* exact rationals [n, d] (d > 0, lowest terms) over integer observations, *)
(* extended with the three non-finite doubles a division by zero can       *)
(* produce: [n |-> 1, d |-> 0] is Infinity, [n |-> -1, d |-> 0] is         *)
(* -Infinity and [n |-> 0, d |-> 0] is NaN.  Math.sqrt(variance) / mean is *)
(* not rational; it is kept as its sign and its square (SqrtOver).         *)
(* Rounding error of double arithmetic is not modelled: on the integer     *)
(* series considered here it can decide a comparison only when the exact   *)
(* value sits on the threshold itself.                                     *)
(***************************************************************************)
EXTENDS Integers, Sequences, FiniteSets, TLC

\* The pattern analyzer: the series held, the result of analyzeTrendPattern, the
\* divisors its divisions used, the result of detectSeasonality, and the result of
\* the call of analyzeTrendPattern before the last one on the same series.
VARIABLES values, result, divisors, seasonality, previous

analyzerVars == <<values, result, divisors, seasonality, previous>>

\* The analysis detail page (AnalysisDetail): the analysis shown, the trends and
\* insights fetched for it, the loading and error state, the calls of
\* fetchDetailedData that have not returned, the requests sent so far with what
\* caused each, and the last exported artifact.
VARIABLES analysis, trendData, insights, detailLoading, detailError, detailCalls,
          detailSent, artifact

detailVars == <<analysis, trendData, insights, detailLoading, detailError, detailCalls,
                detailSent, artifact>>

\* The hooks useTrends, useWatchlists and useAnalytics: loading and error of each,
\* the state each keeps, the calls that have not returned, the number of calls
\* made, and the answers in the order they arrived.
VARIABLES hookLoading, hookError, trends, watchlists, analyticsData, hookCalls,
          hookIssued, hookArrived

hookVars == <<hookLoading, hookError, trends, watchlists, analyticsData, hookCalls,
              hookIssued, hookArrived>>

\* The Search page with its TrendSearch form: the text typed, the results shown,
\* the recent searches, the calls of handleSearch that have not returned and the
\* number of calls made.
VARIABLES query, results, searchHistory, searchCalls, searchIssued

searchVars == <<query, results, searchHistory, searchCalls, searchIssued>>

\* The Dashboard page with its QuickAnalysis form: the text typed and the loading
\* flag of the form, the data, loading flag and error of the page, the requests
\* that have not returned and the number of requests made.
VARIABLES quickKeywords, quickLoading, dashboardData, dashLoading, dashError,
          dashCalls, dashIssued

dashVars == <<quickKeywords, quickLoading, dashboardData, dashLoading, dashError,
              dashCalls, dashIssued>>

\* The Watchlists page with its WatchlistForm: whether the form is shown, the
\* watchlists, loading flag and error of the page, the requests that have not
\* returned, the number of requests made and the number of form submissions; the
\* watchlist under analysis (0 for null), the analysis data, and the watchlist whose
\* analysis has completed with data and has not been closed (0 for none).
VARIABLES showCreateForm, pageWatchlists, wlLoading, wlError, wlCalls, wlIssued,
          wlSubmitted, analyzingWatchlist, analysisData, analysed

wlVars == <<showCreateForm, pageWatchlists, wlLoading, wlError, wlCalls, wlIssued,
            wlSubmitted, analyzingWatchlist, analysisData, analysed>>

\* The MLModels page: the models, loading flag and error of the page, the model
\* in training, the handler calls that have not returned and the requests sent.
VARIABLES models, mlLoading, mlError, trainingModel, mlCalls, mlSent

mlVars == <<models, mlLoading, mlError, trainingModel, mlCalls, mlSent>>

\* The client storage (localStorage) by key, the clock (Date.now(), in
\* milliseconds), the state of useAuth, the requests of the authentication
\* service and of useAuth that have not returned, the last request sent with its
\* Authorization header and the token stored when it was sent, the last result
\* of AuthService.isAuthenticated, the token that the last logout removed, and what
\* the last call of AuthService.refreshToken returned and whether it sent a request.
VARIABLES storage, now, authState, authCalls, lastSent, lastCheck, removed,
          refreshResult

authVars == <<storage, now, authState, authCalls, lastSent, lastCheck, removed,
              refreshResult>>

\* The TrendSearch form taken alone: the text typed into it, the options selected,
\* and the last call of onSearch with the body of the request it led to.
VARIABLES typed, options, searched

tsVars == <<typed, options, searched>>

\* useWatchlists with the server it talks to: the watchlists the server holds and
\* the next id it gives, the calls of the hook that have not returned (each with
\* the answer of the server once the server has handled it), the number of calls
\* made, and how the last call to return ended.
VARIABLES serverList, serverNext, whCalls, whIssued, whDone

whVars == <<serverList, serverNext, whCalls, whIssued, whDone>>

\* TrendsService.compareTrends: where the call stands, the keywords it was given,
\* the answer searchTrends gave it, and what it resolved to.
VARIABLES cmpStage, cmpKeywords, cmpResponse, cmpResult

cmpVars == <<cmpStage, cmpKeywords, cmpResponse, cmpResult>>

\* the component of the client that is on screen
VARIABLE mounted

\* the number of user actions and component mounts so far that called a handler
\* which sends a request
VARIABLE triggers

vars == <<analyzerVars, authVars, tsVars, whVars, cmpVars, mounted, triggers, detailVars, hookVars, searchVars, dashVars,
          wlVars, mlVars>>

\* everything but the analyzer
clientVars == <<authVars, tsVars, whVars, cmpVars, mounted, triggers, detailVars, hookVars, searchVars, dashVars, wlVars,
                mlVars>>

\* everything but the analysis detail page
notDetailVars == <<analyzerVars, authVars, tsVars, whVars, cmpVars, mounted, hookVars, searchVars, dashVars,
                   wlVars, mlVars>>

\* everything but the hooks
notHookVars == <<analyzerVars, authVars, tsVars, whVars, cmpVars, mounted, detailVars, searchVars, dashVars,
                 wlVars, mlVars>>

\* everything but the Search page
notSearchVars == <<analyzerVars, authVars, tsVars, whVars, cmpVars, mounted, detailVars, hookVars, dashVars,
                   wlVars, mlVars>>

\* everything but the Dashboard page and the hook it uses
notDashVars == <<analyzerVars, authVars, tsVars, whVars, cmpVars, mounted, detailVars, searchVars, wlVars, mlVars>>

\* everything but the Watchlists page
notWlVars == <<analyzerVars, authVars, tsVars, whVars, cmpVars, mounted, detailVars, hookVars, searchVars,
               dashVars, mlVars>>

\* everything but the MLModels page
notMlVars == <<analyzerVars, authVars, tsVars, whVars, cmpVars, mounted, detailVars, hookVars, searchVars,
               dashVars, wlVars>>

\* everything but the client storage and the authentication state
notAuthVars == <<analyzerVars, tsVars, whVars, cmpVars, mounted, triggers, detailVars, hookVars, searchVars,
                 dashVars, wlVars, mlVars>>

\* everything but the TrendSearch form
notTsVars == <<analyzerVars, authVars, whVars, cmpVars, mounted, triggers, detailVars, hookVars,
               searchVars, dashVars, wlVars, mlVars>>

\* everything but the server of the watchlists and the calls of useWatchlists
notWhVars == <<analyzerVars, authVars, tsVars, cmpVars, mounted, detailVars, searchVars,
               dashVars, wlVars, mlVars>>

\* everything but the comparison of trends
notCmpVars == <<analyzerVars, authVars, tsVars, whVars, mounted, triggers, detailVars,
                hookVars, searchVars, dashVars, wlVars, mlVars>>

(***************************************************************************)
(* Bounds of the checked input space.                                      *)
(***************************************************************************)
\* Short series: every series of length 0..MaxLen over 0..MaxVal.
MaxLen == 4
MaxVal == 3
\* Periodic series: a pattern of the levels 1 and h, h in 2..MaxPeak, repeated up
\* to a given length.
MaxPeak == 2
\* [10, 20, 30, ...]: the length ranges over 2..MaxRamp.
MaxRamp == 5
\* [100, 0, 0, ...]: the number of trailing zeros ranges over 1..MaxZeros.
MaxZeros == 14
\* Constant series: value 1..MaxConst.
MaxConst == 4

(***************************************************************************)
(* Integer helpers.                                                        *)
(***************************************************************************)
Abs(x) == IF x < 0 THEN -x ELSE x

Sign(x) == IF x > 0 THEN 1 ELSE IF x < 0 THEN -1 ELSE 0

RECURSIVE GCD(_, _)
GCD(a, b) == IF b = 0 THEN a ELSE GCD(b, a % b)

LCM(a, b) == (a \div GCD(a, b)) * b

(***************************************************************************)
(* Double arithmetic as exact rationals with NaN and +-Infinity.           *)
(***************************************************************************)
Norm(n, d) ==
    IF d = 0 THEN [n |-> Sign(n), d |-> 0]
    ELSE LET g == GCD(Abs(n), Abs(d))
             s == Sign(d)
         IN  [n |-> s * (n \div g), d |-> s * (d \div g)]

FromInt(i) == [n |-> i, d |-> 1]

Zero == FromInt(0)

IsFinite(a) == a.d # 0

IsNaN(a) == a.d = 0 /\ a.n = 0

Neg(a) == [n |-> -a.n, d |-> a.d]

\* a + b
Add(a, b) ==
    IF IsFinite(a) /\ IsFinite(b)
    THEN LET l == LCM(a.d, b.d)
         IN  Norm(a.n * (l \div a.d) + b.n * (l \div b.d), l)
    ELSE IF IsFinite(b) THEN a
    ELSE IF IsFinite(a) THEN b
    ELSE IF a.n = b.n THEN a
    ELSE [n |-> 0, d |-> 0]

\* a - b
Sub(a, b) == Add(a, Neg(b))

\* a * b
Mul(a, b) ==
    IF IsFinite(a) /\ IsFinite(b)
    THEN LET g1 == GCD(Abs(a.n), b.d)
             g2 == GCD(Abs(b.n), a.d)
         IN  Norm((a.n \div g1) * (b.n \div g2), (a.d \div g2) * (b.d \div g1))
    ELSE [n |-> Sign(a.n) * Sign(b.n), d |-> 0]

\* a / b, with the IEEE results of dividing by zero
Div(a, b) ==
    IF IsFinite(a) /\ IsFinite(b)
    THEN IF b.n = 0
         THEN [n |-> Sign(a.n), d |-> 0]
         ELSE Mul(a, [n |-> Sign(b.n) * b.d, d |-> Abs(b.n)])
    ELSE IF IsFinite(b) THEN [n |-> a.n * (IF b.n < 0 THEN -1 ELSE 1), d |-> 0]
    ELSE IF IsFinite(a) /\ ~IsNaN(b) THEN Zero
    ELSE [n |-> 0, d |-> 0]

\* a > b; every comparison with NaN is false
Gt(a, b) ==
    IF IsNaN(a) \/ IsNaN(b) THEN FALSE
    ELSE IF IsFinite(a) /\ IsFinite(b)
    THEN LET l == LCM(a.d, b.d)
         IN  a.n * (l \div a.d) > b.n * (l \div b.d)
    ELSE IF ~IsFinite(a) /\ ~IsFinite(b) THEN a.n > b.n
    ELSE IF ~IsFinite(a) THEN a.n > 0
    ELSE b.n < 0

\* Math.abs
MathAbs(a) == [n |-> Abs(a.n), d |-> a.d]

\* Math.max; NaN if either argument is NaN
MathMax(a, b) ==
    IF IsNaN(a) THEN a ELSE IF IsNaN(b) THEN b ELSE IF Gt(b, a) THEN b ELSE a

\* Math.min; NaN if either argument is NaN
MathMin(a, b) ==
    IF IsNaN(a) THEN a ELSE IF IsNaN(b) THEN b ELSE IF Gt(a, b) THEN b ELSE a

\* a !== 0 (NaN !== 0 is true)
NotZero(a) == ~(IsFinite(a) /\ a.n = 0)

\* Math.sqrt(v) / m, kept as its sign and its square v / m^2
SqrtOver(v, m) ==
    LET sq == Div(v, Mul(m, m))
    IN  [sgn |-> IF IsFinite(sq) THEN Sign(sq.n) * Sign(m.n) ELSE Sign(m.n),
         sq |-> sq]

\* the number 0 as a value of the same kind as SqrtOver's
SurdZero == [sgn |-> 0, sq |-> Zero]

\* s > q for a rational q >= 0
SurdGt(s, q) == s.sgn > 0 /\ Gt(s.sq, Mul(q, q))

(***************************************************************************)
(* TrendsService: the pattern analyzer.                                    *)
(***************************************************************************)
\* seasonal_strength: undefined
Undefined == [undefined |-> TRUE]

\* The loops below carry their accumulator through the iterations as the source
\* does.  Each tests acc.d >= 0, which holds of every number of the model, before
\* it goes on: the test only makes TLC evaluate the accumulator at each iteration
\* instead of nesting sixty unevaluated sums.

\* values.reduce((sum, val) => sum + val, 0)
RECURSIVE SumFrom(_, _, _)
SumFrom(vals, i, sum) ==
    IF i > Len(vals) THEN sum
    ELSE LET acc == Add(sum, FromInt(vals[i]))
         IN  IF acc.d >= 0 THEN SumFrom(vals, i + 1, acc) ELSE acc

\* Mean with the sum divided by one less than the number of observations
Mean_OffByOne(vals) == Div(SumFrom(vals, 1, Zero), FromInt(Len(vals) - 1))

\* values.reduce(...) / values.length
Mean(vals) == Div(SumFrom(vals, 1, Zero), FromInt(Len(vals)))

\* values.reduce((sum, val) => sum + Math.pow(val - mean, 2), 0)
RECURSIVE SumSqDevFrom(_, _, _, _)
SumSqDevFrom(vals, mean, i, sum) ==
    IF i > Len(vals) THEN sum
    ELSE LET dev == Sub(FromInt(vals[i]), mean)
             acc == Add(sum, Mul(dev, dev))
         IN  IF acc.d >= 0 THEN SumSqDevFrom(vals, mean, i + 1, acc) ELSE acc

\* Variance as the sample variance: the sum divided by n - 1
Variance_Sample(vals, mean) ==
    Div(SumSqDevFrom(vals, mean, 1, Zero), FromInt(Len(vals) - 1))

\* values.reduce(...) / values.length
Variance(vals, mean) == Div(SumSqDevFrom(vals, mean, 1, Zero), FromInt(Len(vals)))

\* x || 0 on a number
OrZero(x) == IF x = 0 THEN 0 ELSE x

\* values[0] || 0; values[0] of an empty array is undefined, and undefined || 0 is 0
firstValue(vals) == IF Len(vals) >= 1 THEN OrZero(vals[1]) ELSE 0

\* values[values.length - 1] || 0
lastValue(vals) == IF Len(vals) >= 1 THEN OrZero(vals[Len(vals)]) ELSE 0

\* growthRate without the guard against a first observation of 0
growthRate_Unguarded(vals) ==
    Mul(Div(FromInt(lastValue(vals) - firstValue(vals)), FromInt(firstValue(vals))),
        FromInt(100))

\* growthRate with the difference taken the wrong way round
growthRate_Reversed(vals) ==
    IF firstValue(vals) # 0
    THEN Mul(Div(FromInt(firstValue(vals) - lastValue(vals)), FromInt(firstValue(vals))),
             FromInt(100))
    ELSE Zero

\* growthRate relative to the last observation instead of the first
growthRate_OverLast(vals) ==
    IF firstValue(vals) # 0
    THEN Mul(Div(FromInt(lastValue(vals) - firstValue(vals)), FromInt(lastValue(vals))),
             FromInt(100))
    ELSE Zero

\* firstValue !== 0 ? ((lastValue - firstValue) / firstValue) * 100 : 0
growthRate(vals) ==
    IF firstValue(vals) # 0
    THEN Mul(Div(FromInt(lastValue(vals) - firstValue(vals)), FromInt(firstValue(vals))),
             FromInt(100))
    ELSE Zero

\* volatility without the square root: variance / mean
volatility_NoSqrt(vals) ==
    LET mean == Mean(vals)
        variance == Variance(vals, mean)
        ratio == Div(variance, mean)
    IN  IF NotZero(mean)
        THEN [sgn |-> Sign(ratio.n), sq |-> Mul(ratio, ratio)]
        ELSE SurdZero

\* volatility without the guard against a mean of 0
volatility_Unguarded(vals) ==
    LET mean == Mean(vals)
        variance == Variance(vals, mean)
    IN  SqrtOver(variance, mean)

\* mean !== 0 ? Math.sqrt(variance) / mean : 0
volatility(vals) ==
    LET mean == Mean(vals)
        variance == Variance(vals, mean)
    IN  IF NotZero(mean) THEN SqrtOver(variance, mean) ELSE SurdZero

\* the thresholds of the classification and of the seasonality test
VolatileAbove == Norm(5, 10)
ExponentialAbove == FromInt(50)
LinearAbove == FromInt(10)
SeasonalAbove == Norm(3, 10)

\* const periods = [7, 30]
periods == <<7, 30>>

\* for (let i = 0; i < values.length - period; i++)
\*   correlation += (values[i] - mean) * (values[i + period] - mean)
RECURSIVE CorrelationFrom(_, _, _, _, _)
CorrelationFrom(vals, mean, period, i, correlation) ==
    IF ~(i < Len(vals) - period) THEN correlation
    ELSE LET acc == Add(correlation, Mul(Sub(FromInt(vals[i + 1]), mean),
                                         Sub(FromInt(vals[i + period + 1]), mean)))
         IN  IF acc.d >= 0 THEN CorrelationFrom(vals, mean, period, i + 1, acc) ELSE acc

\* Correlation without Math.abs
Correlation_Signed(vals, mean, variance, period) ==
    Div(CorrelationFrom(vals, mean, period, 0, Zero),
        Mul(FromInt(Len(vals) - period), variance))

\* Math.abs(correlation / ((values.length - period) * variance))
Correlation(vals, mean, variance, period) ==
    MathAbs(Div(CorrelationFrom(vals, mean, period, 0, Zero),
                Mul(FromInt(Len(vals) - period), variance)))

\* the loop over the periods with a lag admitted from one period of observations
RECURSIVE MaxCorrelationFrom_OnePeriod(_, _, _, _, _)
MaxCorrelationFrom_OnePeriod(vals, mean, variance, k, maxCorrelation) ==
    IF k > Len(periods) THEN maxCorrelation
    ELSE MaxCorrelationFrom_OnePeriod(vals, mean, variance, k + 1,
             IF Len(vals) >= periods[k]
             THEN MathMax(maxCorrelation, Correlation(vals, mean, variance, periods[k]))
             ELSE maxCorrelation)

\* periods.forEach(period => { if (values.length >= period * 2) ... })
RECURSIVE MaxCorrelationFrom(_, _, _, _, _)
MaxCorrelationFrom(vals, mean, variance, k, maxCorrelation) ==
    IF k > Len(periods) THEN maxCorrelation
    ELSE MaxCorrelationFrom(vals, mean, variance, k + 1,
             IF Len(vals) >= periods[k] * 2
             THEN MathMax(maxCorrelation, Correlation(vals, mean, variance, periods[k]))
             ELSE maxCorrelation)

detectSeasonality(vals) ==
    IF Len(vals) < 12 THEN FALSE
    ELSE LET mean == Mean(vals)
             variance == Variance(vals, mean)
         IN  IF ~NotZero(variance) THEN FALSE
             ELSE Gt(MaxCorrelationFrom(vals, mean, variance, 1, Zero), SeasonalAbove)

\* deviations.reduce((sum, dev) => sum + dev, 0) over values.map(val => Math.abs(val - mean))
RECURSIVE SumAbsDevFrom(_, _, _, _)
SumAbsDevFrom(vals, mean, i, sum) ==
    IF i > Len(vals) THEN sum
    ELSE LET acc == Add(sum, MathAbs(Sub(FromInt(vals[i]), mean)))
         IN  IF acc.d >= 0 THEN SumAbsDevFrom(vals, mean, i + 1, acc) ELSE acc

\* calculateSeasonalStrength without the division by deviations.length
calculateSeasonalStrength_Sum(vals) ==
    IF Len(vals) < 12 THEN Zero
    ELSE LET mean == Mean(vals)
             avgDeviation == SumAbsDevFrom(vals, mean, 1, Zero)
         IN  IF NotZero(mean) THEN MathMin(Div(avgDeviation, mean), FromInt(1)) ELSE Zero

calculateSeasonalStrength(vals) ==
    IF Len(vals) < 12 THEN Zero
    ELSE LET mean == Mean(vals)
             avgDeviation == Div(SumAbsDevFrom(vals, mean, 1, Zero), FromInt(Len(vals)))
         IN  IF NotZero(mean) THEN MathMin(Div(avgDeviation, mean), FromInt(1)) ELSE Zero

\* trendType with the growth-rate rules tested before the volatility rule
trendType_GrowthFirst(vals, growth, vol) ==
    IF Gt(MathAbs(growth), ExponentialAbove) THEN "exponential"
    ELSE IF Gt(MathAbs(growth), LinearAbove) THEN "linear"
    ELSE IF SurdGt(vol, VolatileAbove) THEN "volatile"
    ELSE IF detectSeasonality(vals) THEN "seasonal"
    ELSE "stable"

\* the if / else-if chain that determines the trend type
trendType(vals, growth, vol) ==
    IF SurdGt(vol, VolatileAbove) THEN "volatile"
    ELSE IF Gt(MathAbs(growth), ExponentialAbove) THEN "exponential"
    ELSE IF Gt(MathAbs(growth), LinearAbove) THEN "linear"
    ELSE IF detectSeasonality(vals) THEN "seasonal"
    ELSE "stable"

\* TooShort with the bound off by one
TooShort_Empty(vals) == Len(vals) < 1

\* if (values.length < 2) return { trend_type: 'stable', growth_rate: 0, volatility: 0 }
TooShort(vals) == Len(vals) < 2

analyzeTrendPattern(vals) ==
    IF TooShort(vals)
    THEN [trend_type |-> "stable", growth_rate |-> Zero, volatility |-> SurdZero,
          seasonal_strength |-> Undefined]
    ELSE LET growth == growthRate(vals)
             vol == volatility(vals)
             type == trendType(vals, growth, vol)
         IN  [trend_type |-> type, growth_rate |-> growth, volatility |-> vol,
              seasonal_strength |->
                  IF type = "seasonal" THEN calculateSeasonalStrength(vals) ELSE Undefined]

(***************************************************************************)
(* The divisors of every division one call of analyzeTrendPattern          *)
(* evaluates, in execution order (the calls of detectSeasonality and       *)
(* calculateSeasonalStrength it makes included).                           *)
(***************************************************************************)
RECURSIVE CorrelationDivisorsFrom(_, _, _)
CorrelationDivisorsFrom(vals, variance, k) ==
    IF k > Len(periods) THEN <<>>
    ELSE (IF Len(vals) >= periods[k] * 2
          THEN <<Mul(FromInt(Len(vals) - periods[k]), variance)>>
          ELSE <<>>) \o CorrelationDivisorsFrom(vals, variance, k + 1)

detectSeasonalityDivisors(vals) ==
    IF Len(vals) < 12 THEN <<>>
    ELSE LET mean == Mean(vals)
             variance == Variance(vals, mean)
         IN  <<FromInt(Len(vals)), FromInt(Len(vals))>>
             \o (IF ~NotZero(variance) THEN <<>>
                 ELSE CorrelationDivisorsFrom(vals, variance, 1))

calculateSeasonalStrengthDivisors(vals) ==
    IF Len(vals) < 12 THEN <<>>
    ELSE LET mean == Mean(vals)
         IN  <<FromInt(Len(vals)), FromInt(Len(vals))>>
             \o (IF NotZero(mean) THEN <<mean>> ELSE <<>>)

analyzeTrendPatternDivisors(vals) ==
    IF TooShort(vals) THEN <<>>
    ELSE LET growth == growthRate(vals)
             mean == Mean(vals)
             vol == volatility(vals)
             type == trendType(vals, growth, vol)
         IN  (IF firstValue(vals) # 0 THEN <<FromInt(firstValue(vals))>> ELSE <<>>)
             \o <<FromInt(Len(vals)), FromInt(Len(vals))>>
             \o (IF NotZero(mean) THEN <<mean>> ELSE <<>>)
             \o (IF type \in {"seasonal", "stable"}
                 THEN detectSeasonalityDivisors(vals) ELSE <<>>)
             \o (IF type = "seasonal"
                 THEN calculateSeasonalStrengthDivisors(vals) ELSE <<>>)

(***************************************************************************)
(* The series the analyzer is applied to.                                  *)
(***************************************************************************)
\* every series of at most MaxLen observations in 0..MaxVal
ShortSeries == UNION {[1..k -> 0..MaxVal] : k \in 0..MaxLen}

\* a pattern repeated up to n observations
Periodic(pat, n) == [i \in 1..n |-> pat[((i - 1) % Len(pat)) + 1]]

PatternLens == {5, 7}

LongLens == {12, 13, 14, 15, 60}

Patterns == UNION {[1..p -> {1, h}] : p \in PatternLens, h \in 2..MaxPeak}

PeriodicSeries == {Periodic(pat, n) : pat \in Patterns, n \in LongLens}

\* [10, 20, 30, ...]
Ramp(n) == [i \in 1..n |-> 10 * i]

RampSeries == {Ramp(n) : n \in 2..MaxRamp}

\* [100, 0, 0, ...]
Spike(zeros) == <<100>> \o [i \in 1..zeros |-> 0]

SpikeSeries == {Spike(z) : z \in 1..MaxZeros}

\* [c, c, c, ...]
Constant(c, n) == [i \in 1..n |-> c]

ConstantSeries == {Constant(c, n) : c \in 0..MaxConst, n \in (2..3) \cup LongLens}

Series == ShortSeries \cup PeriodicSeries \cup RampSeries \cup SpikeSeries \cup ConstantSeries

(***************************************************************************)
(* The analyzer as a state machine: a trend series is held, and the        *)
(* summaries are computed from it on request and dropped again.            *)
(***************************************************************************)
\* nothing computed (yet)
NoResult == [none |-> TRUE]

\* JavaScript's null
JsNull == [null |-> TRUE]

\* null and undefined where a string is expected: a value no string of the
\* program equals
Null == "(null)"

\* the analysis detail page is not mounted
DetailIdle ==
    /\ analysis = NoResult
    /\ trendData = <<>>
    /\ insights = <<>>
    /\ detailLoading = FALSE
    /\ detailError = Null
    /\ detailCalls = <<>>
    /\ detailSent = <<>>
    /\ artifact = NoResult

\* useState<TrendsData>({})
EmptyObject == [empty |-> TRUE]

Hooks == {"useTrends", "useWatchlists", "useAnalytics"}

\* no hook has been called
HooksIdle ==
    /\ hookLoading = [h \in Hooks |-> FALSE]
    /\ hookError = [h \in Hooks |-> Null]
    /\ trends = EmptyObject
    /\ watchlists = <<>>
    /\ analyticsData = JsNull
    /\ hookCalls = {}
    /\ hookIssued = 0
    /\ hookArrived = <<>>

\* the Search page is not mounted
SearchIdle ==
    /\ query = ""
    /\ results = JsNull
    /\ searchHistory = <<>>
    /\ searchCalls = {}
    /\ searchIssued = 0

\* the Dashboard page is not mounted
DashIdle ==
    /\ quickKeywords = ""
    /\ quickLoading = FALSE
    /\ dashboardData = JsNull
    /\ dashLoading = FALSE
    /\ dashError = Null
    /\ dashCalls = {}
    /\ dashIssued = 0

\* the Watchlists page is not mounted
WlIdle ==
    /\ showCreateForm = FALSE
    /\ pageWatchlists = <<>>
    /\ wlLoading = FALSE
    /\ wlError = Null
    /\ wlCalls = {}
    /\ wlIssued = 0
    /\ wlSubmitted = 0
    /\ analyzingWatchlist = 0
    /\ analysisData = JsNull
    /\ analysed = 0

\* the MLModels page is not mounted
MlIdle ==
    /\ models = <<>>
    /\ mlLoading = TRUE
    /\ mlError = Null
    /\ trainingModel = Null
    /\ mlCalls = {}
    /\ mlSent = <<>>

\* localStorage keys of AuthService and useAuth
StorageKeys == {"authToken", "refreshToken", "user", "userData"}

\* useAuth before its mount effect, with what it reads from the storage
InitialAuthState ==
    [user |-> JsNull, token |-> storage["authToken"], isAuthenticated |-> FALSE,
     loading |-> TRUE]

\* an empty storage, and useAuth before its mount effect
AuthIdle ==
    /\ storage = [k \in StorageKeys |-> JsNull]
    /\ now = 0
    /\ authState = InitialAuthState
    /\ authCalls = {}
    /\ lastSent = JsNull
    /\ lastCheck = JsNull
    /\ removed = JsNull
    /\ refreshResult = JsNull

\* TrendSearch as it is first rendered
TsIdle ==
    /\ typed = <<>>
    /\ options = [timeframe |-> "today 3-m", geo |-> "US", include_ml |-> TRUE]
    /\ searched = JsNull

\* a server without watchlists and no call of useWatchlists made
WhIdle ==
    /\ serverList = <<>>
    /\ serverNext = 1
    /\ whCalls = {}
    /\ whIssued = 0
    /\ whDone = JsNull

\* compareTrends not called
CompareIdle ==
    /\ cmpStage = "idle"
    /\ cmpKeywords = <<>>
    /\ cmpResponse = JsNull
    /\ cmpResult = JsNull

\* the components as they are before any of them is mounted
ComponentsIdle ==
    /\ triggers = 0
    /\ DetailIdle
    /\ HooksIdle
    /\ SearchIdle
    /\ DashIdle
    /\ WlIdle
    /\ MlIdle
    /\ AuthIdle
    /\ TsIdle
    /\ WhIdle
    /\ CompareIdle

\* no component of the client is mounted
ClientIdle == mounted = "none" /\ ComponentsIdle

\* no series is held by the analyzer
AnalyzerIdle ==
    /\ values = <<>>
    /\ result = NoResult
    /\ divisors = <<>>
    /\ seasonality = NoResult
    /\ previous = NoResult

InitAnalyzer ==
    /\ values \in Series
    /\ result = NoResult
    /\ divisors = <<>>
    /\ seasonality = NoResult
    /\ previous = NoResult
    /\ ClientIdle

\* Analyze with the series reversed in place by the call
Analyze_ReversesInput ==
    /\ result = NoResult
    /\ result' = analyzeTrendPattern(values)
    /\ divisors' = analyzeTrendPatternDivisors(values)
    /\ values' = [i \in 1..Len(values) |-> values[Len(values) + 1 - i]]
    /\ UNCHANGED <<seasonality, previous>>
    /\ UNCHANGED clientVars

\* const pattern = TrendsService.analyzeTrendPattern(data)
Analyze ==
    /\ result = NoResult
    /\ result' = analyzeTrendPattern(values)
    /\ divisors' = analyzeTrendPatternDivisors(values)
    /\ UNCHANGED <<values, seasonality, previous>>
    /\ UNCHANGED clientVars

\* this.detectSeasonality(values), on its own
DetectSeasonality ==
    /\ seasonality = NoResult
    /\ seasonality' = [seasonal |-> detectSeasonality(values)]
    /\ UNCHANGED <<values, result, divisors, previous>>
    /\ UNCHANGED clientVars

\* the summaries are not stored: they are gone when the caller is done with them
Discard ==
    /\ result # NoResult \/ seasonality # NoResult \/ previous # NoResult
    /\ result' = NoResult
    /\ divisors' = <<>>
    /\ seasonality' = NoResult
    /\ previous' = NoResult
    /\ UNCHANGED values
    /\ UNCHANGED clientVars

NextAnalyzer == Analyze \/ DetectSeasonality \/ Discard

SpecAnalyzer == InitAnalyzer /\ [][NextAnalyzer]_vars

\* a second call of analyzeTrendPattern on the series held, the result of the
\* call before it kept for comparison
AnalyzeAgain ==
    /\ result # NoResult
    /\ previous' = result
    /\ result' = analyzeTrendPattern(values)
    /\ divisors' = analyzeTrendPatternDivisors(values)
    /\ UNCHANGED <<values, seasonality>>
    /\ UNCHANGED clientVars

\* the series of at most 15 observations
RepeatSeries == {s \in Series : Len(s) <= 15}

InitRepeat ==
    /\ values \in RepeatSeries
    /\ result = NoResult
    /\ divisors = <<>>
    /\ seasonality = NoResult
    /\ previous = NoResult
    /\ ClientIdle

NextRepeat == Analyze \/ AnalyzeAgain \/ DetectSeasonality \/ Discard

SpecRepeat == InitRepeat /\ [][NextRepeat]_vars

(***************************************************************************)
(* The quantities the properties are stated in, computed from the series   *)
(* in integers and independently of the operators above.                   *)
(***************************************************************************)
\* the sum of vals[lo..hi]
RECURSIVE SumRange(_, _, _)
SumRange(vals, lo, hi) ==
    IF lo > hi THEN 0
    ELSE IF lo = hi THEN vals[lo]
    ELSE LET mid == (lo + hi) \div 2
         IN  SumRange(vals, lo, mid) + SumRange(vals, mid + 1, hi)

\* the sum of the squares of vals[lo..hi]
RECURSIVE SumSqRange(_, _, _)
SumSqRange(vals, lo, hi) ==
    IF lo > hi THEN 0
    ELSE IF lo = hi THEN vals[lo] * vals[lo]
    ELSE LET mid == (lo + hi) \div 2
         IN  SumSqRange(vals, lo, mid) + SumSqRange(vals, mid + 1, hi)

\* n = the number of observations, S = their sum, Q = the sum of their squares
NObs == Len(values)
SObs == SumRange(values, 1, Len(values))
QObs == SumSqRange(values, 1, Len(values))

\* n^2 * (population variance)  =  n * Q - S^2
VarN2 == NObs * QObs - SObs * SObs

\* first and last observation of a non-empty series
First == values[1]
Last == values[Len(values)]

\* the sum over i in lo..hi of (n * x[i] - S) * (n * x[i + p] - S)
RECURSIVE CrossRange(_, _, _)
CrossRange(p, lo, hi) ==
    IF lo > hi THEN 0
    ELSE IF lo = hi
    THEN (NObs * values[lo] - SObs) * (NObs * values[lo + p] - SObs)
    ELSE LET mid == (lo + hi) \div 2
         IN  CrossRange(p, lo, mid) + CrossRange(p, mid + 1, hi)

\* |sum over i < n - p of (x[i] - mean)(x[i + p] - mean)| / ((n - p) * variance) > 0.3
LagExceeds(p) ==
    /\ NObs >= 2 * p
    /\ 10 * Abs(CrossRange(p, 1, NObs - p)) > 3 * (NObs - p) * VarN2

\* the series is seasonal by the stated test
Seasonal == NObs >= 12 /\ VarN2 # 0 /\ (LagExceeds(7) \/ LagExceeds(30))

\* volatility > 0.5 for a series of non-negative observations
Volatile == SObs # 0 /\ 4 * VarN2 > SObs * SObs

\* |growth rate| > pct, for a series of non-negative observations
GrowthExceeds(pct) == First # 0 /\ 100 * Abs(Last - First) > pct * First

Analysed == result # NoResult

(***************************************************************************)
(* C1.  For every series of length >= 2 the trend type is given by the     *)
(* first matching rule in this order: volatility > 0.5 gives "volatile",   *)
(* else |growth rate| > 50 gives "exponential", else |growth rate| > 10    *)
(* gives "linear", else seasonality detected gives "seasonal", else        *)
(* "stable".  A series with volatility > 0.5 is never "exponential",       *)
(* "linear" or "seasonal", even when those thresholds match too.           *)
(***************************************************************************)
C1_ClassificationPrecedence ==
    (Analysed /\ NObs >= 2) =>
        /\ result.trend_type =
              IF Volatile THEN "volatile"
              ELSE IF GrowthExceeds(50) THEN "exponential"
              ELSE IF GrowthExceeds(10) THEN "linear"
              ELSE IF Seasonal THEN "seasonal"
              ELSE "stable"
        /\ Volatile => result.trend_type \notin {"exponential", "linear", "seasonal"}

\* a volatile series whose growth rate exceeds 50 as well has been analysed
C1_Witness ==
    /\ Analysed /\ NObs >= 2
    /\ Volatile /\ GrowthExceeds(50)
    /\ result.trend_type = "volatile"

(***************************************************************************)
(* C2.  For every series of fewer than 2 observations the result is        *)
(* trend type "stable", growth rate 0, volatility 0 (and no seasonal       *)
(* strength), and no division is attempted.                                *)
(***************************************************************************)
C2_DegenerateSeries ==
    (Analysed /\ NObs < 2) =>
        /\ result = [trend_type |-> "stable", growth_rate |-> Zero,
                     volatility |-> SurdZero, seasonal_strength |-> Undefined]
        /\ divisors = <<>>

\* a single non-zero observation has been analysed
C2_Witness == Analysed /\ NObs = 1 /\ First > 0

(***************************************************************************)
(* C3.  For every series of length >= 2 the growth rate is                 *)
(* (last - first) / first * 100 when first is not 0, and 0 when first is   *)
(* 0; no division by zero is performed.                                    *)
(***************************************************************************)
C3_GrowthRate ==
    (Analysed /\ NObs >= 2) =>
        /\ IsFinite(result.growth_rate)
        /\ First # 0 => result.growth_rate.n * First = 100 * (Last - First) * result.growth_rate.d
        /\ First = 0 => result.growth_rate = Zero
        /\ \A k \in 1..Len(divisors) : NotZero(divisors[k])

\* a series that starts at 0 and ends above 0 has been analysed
C3_Witness == Analysed /\ NObs >= 2 /\ First = 0 /\ Last > 0

(***************************************************************************)
(* C4.  For every series of non-negative observations of length >= 2 the   *)
(* sign of the growth rate is the sign of (last - first) when first is not *)
(* 0, and the growth rate is exactly 0 when first is 0.                    *)
(***************************************************************************)
C4_GrowthSign ==
    (Analysed /\ NObs >= 2) =>
        IF First # 0
        THEN /\ result.growth_rate.d > 0
             /\ Sign(result.growth_rate.n) = Sign(Last - First)
        ELSE result.growth_rate.n = 0 /\ result.growth_rate.d = 1

\* a falling series has been analysed, and its growth rate is negative
C4_Witness ==
    /\ Analysed /\ NObs >= 2
    /\ First # 0 /\ Last < First
    /\ result.growth_rate.n < 0

(***************************************************************************)
(* C5.  For every series of length >= 2 the volatility is the population   *)
(* standard deviation (squared deviations summed and divided by n) divided *)
(* by the mean, and 0 when the mean is 0; so for a positive mean the test  *)
(* volatility > 0.5 holds exactly when 4 * variance > mean^2.              *)
(* With variance = (n*Q - S^2) / n^2 and mean = S / n, the square of the   *)
(* volatility is (n*Q - S^2) / S^2.                                        *)
(***************************************************************************)
C5_Volatility ==
    (Analysed /\ NObs >= 2) =>
        /\ SObs = 0 => result.volatility = SurdZero
        /\ SObs # 0 =>
              /\ result.volatility.sq.d > 0
              /\ result.volatility.sq.n * (SObs * SObs) = VarN2 * result.volatility.sq.d
              /\ result.volatility.sgn = Sign(VarN2) * Sign(SObs)
        /\ SObs > 0 => (result.trend_type = "volatile" <=> 4 * VarN2 > SObs * SObs)

\* a series of three or more observations with volatility > 0.5 has been analysed
C5_Witness ==
    /\ Analysed /\ NObs >= 3
    /\ SObs > 0 /\ 4 * VarN2 > SObs * SObs
    /\ result.trend_type = "volatile"

(***************************************************************************)
(* C6.  For every constant series (all observations equal to one value     *)
(* > 0, length >= 2) the volatility is 0 and the trend type is not         *)
(* "volatile".                                                             *)
(***************************************************************************)
IsConstant == \A i \in 1..Len(values) : values[i] = values[1]

C7_DetectSeasonality ==
    seasonality # NoResult =>
        /\ seasonality.seasonal = Seasonal
        /\ VarN2 = 0 => seasonality.seasonal = FALSE

\* a series of 60 observations is seasonal by lag 30 and not by lag 7
C7_Witness ==
    /\ seasonality # NoResult /\ NObs >= 60
    /\ seasonality.seasonal
    /\ LagExceeds(30) /\ ~LagExceeds(7)

(***************************************************************************)
(* C8.  In every result the seasonal strength is defined if and only if    *)
(* the trend type is "seasonal", and when defined it lies in [0, 1]: the   *)
(* mean absolute deviation divided by the mean, capped at 1, and 0 when    *)
(* the mean is 0.                                                          *)
(***************************************************************************)
\* the sum over i in lo..hi of |n * x[i] - S|
RECURSIVE AbsDevRange(_, _)
AbsDevRange(lo, hi) ==
    IF lo > hi THEN 0
    ELSE IF lo = hi THEN Abs(NObs * values[lo] - SObs)
    ELSE LET mid == (lo + hi) \div 2
         IN  AbsDevRange(lo, mid) + AbsDevRange(mid + 1, hi)

\* n^2 * (mean absolute deviation)
AbsDevN2 == AbsDevRange(1, NObs)

C8_SeasonalStrength ==
    Analysed =>
        /\ result.seasonal_strength # Undefined <=> result.trend_type = "seasonal"
        /\ result.seasonal_strength # Undefined =>
              LET strength == result.seasonal_strength
              IN  /\ strength.d > 0
                  /\ 0 <= strength.n /\ strength.n <= strength.d
                  /\ IF SObs = 0 THEN strength.n = 0
                     ELSE IF AbsDevN2 >= NObs * SObs THEN strength.n = strength.d
                     ELSE strength.n * NObs * SObs = AbsDevN2 * strength.d

\* a series has been classified "seasonal" and has a positive seasonal strength
C8_Witness ==
    /\ Analysed
    /\ result.trend_type = "seasonal"
    /\ result.seasonal_strength.n > 0

(***************************************************************************)
(* C9.  For the series [10, 20, 30, 40, 50] the growth rate is 400 and the *)
(* trend type is "exponential": the volatility is at most 0.5, so the      *)
(* "volatile" rule does not pre-empt the |growth rate| > 50 rule.          *)
(***************************************************************************)
C9_RampScenario ==
    (Analysed /\ values = <<10, 20, 30, 40, 50>>) =>
        /\ result.growth_rate = [n |-> 400, d |-> 1]
        /\ result.trend_type = "exponential"
        /\ result.volatility.sq.d > 0
        /\ 4 * result.volatility.sq.n <= result.volatility.sq.d

\* [10, 20, 30, 40, 50] has been analysed
C9_Witness == Analysed /\ values = <<10, 20, 30, 40, 50>>

(***************************************************************************)
(* C10.  For every series of length >= 2 whose first observation is 100    *)
(* and whose later observations are all 0, the growth rate is -100, the    *)
(* trend type is the one the precedence rules give (the volatility is      *)
(* sqrt(n - 1) > 0.5, so "volatile"), and no division by zero is           *)
(* performed: no NaN or infinite value appears in the result.              *)
(***************************************************************************)
IsSpike == NObs >= 2 /\ values[1] = 100 /\ \A i \in 2..NObs : values[i] = 0

C10_SpikeScenario ==
    (Analysed /\ IsSpike) =>
        /\ result.growth_rate = [n |-> -100, d |-> 1]
        /\ Volatile /\ result.trend_type = "volatile"
        /\ result.volatility.sgn = 1
        /\ result.volatility.sq = [n |-> NObs - 1, d |-> 1]
        /\ result.seasonal_strength = Undefined
        /\ \A k \in 1..Len(divisors) : IsFinite(divisors[k]) /\ divisors[k].n # 0

\* [100, 0, ..., 0] with 12 or more observations has been analysed
C10_Witness == Analysed /\ IsSpike /\ NObs >= 12

(***************************************************************************)
(* C11.  For every all-zero series of length >= 2, lengths >= 14 where the *)
(* seasonality check runs included, the growth rate is 0, the volatility   *)
(* is 0 and the trend type is "stable".                                    *)
(***************************************************************************)
IsAllZero == \A i \in 1..Len(values) : values[i] = 0

C11_AllZeroSeries ==
    (Analysed /\ NObs >= 2 /\ IsAllZero) =>
        /\ result.growth_rate = Zero
        /\ result.volatility = SurdZero
        /\ result.trend_type = "stable"
        /\ result.seasonal_strength = Undefined

\* an all-zero series of 14 or more observations has been analysed
C11_Witness == Analysed /\ NObs >= 14 /\ IsAllZero

(***************************************************************************)
(* C12.  analyzeTrendPattern is pure and deterministic: a call leaves the  *)
(* series and every other piece of state unchanged, two calls on the same  *)
(* series return the same result, and a call on any series of non-negative *)
(* numbers, of any length >= 0, returns a result (nothing is thrown).      *)
(***************************************************************************)
\* the step is a call of analyzeTrendPattern
CallStep == result' # NoResult /\ (result = NoResult \/ previous' # previous)

TrendTypes == {"exponential", "linear", "seasonal", "volatile", "stable"}

C12_Step ==
    /\ CallStep => (values' = values /\ seasonality' = seasonality)
    /\ CallStep => (result'.trend_type \in TrendTypes /\ IsFinite(result'.growth_rate))
    /\ (result' # NoResult /\ previous' # NoResult) => result' = previous'

LagWouldExceed(p) ==
    /\ NObs > p
    /\ 10 * Abs(CrossRange(p, 1, NObs - p)) > 3 * (NObs - p) * VarN2

\* no lag of the series held is evaluated by detectSeasonality
NoLagEvaluated ==
    CorrelationDivisorsFrom(values, Variance(values, Mean(values)), 1) = <<>>

(***************************************************************************)
(* C29.  A series with fewer than 14 observations is never classified      *)
(* "seasonal" by analyzeTrendPattern, although the seasonality check       *)
(* admits series of 12 or more: lag 7 needs at least 14 observations and   *)
(* lag 30 at least 60, so for lengths 12 and 13 no lag is evaluated.       *)
(***************************************************************************)
C29_ShortNeverSeasonal ==
    /\ (Analysed /\ NObs < 14) => result.trend_type # "seasonal"
    /\ (seasonality # NoResult /\ NObs < 14) => ~seasonality.seasonal
    /\ NObs \in {12, 13} => NoLagEvaluated
    /\ (NObs >= 1 /\ ~NoLagEvaluated) => NObs >= 14
    /\ (NObs >= 1 /\ NObs < 60) =>
          Len(CorrelationDivisorsFrom(values, Variance(values, Mean(values)), 1)) <= 1

\* a series of 13 observations whose lag-7 correlation exceeds 0.3, and which no
\* earlier rule classifies, has been analysed and found "stable"
C29_Witness ==
    /\ Analysed /\ NObs = 13
    /\ VarN2 # 0 /\ ~Volatile /\ ~GrowthExceeds(10)
    /\ LagWouldExceed(7)
    /\ result.trend_type = "stable"

(***************************************************************************)
(* AnalysisDetail (src/unnamed/part_003): the analysis detail page.  It    *)
(* fetches the trends and the insights of the analysis it is given, keeps  *)
(* each trend with the pattern analyzeTrendPattern computed for it, and    *)
(* exports them as a JSON file.  The i-th timestamp of a trend is          *)
(* represented by i.                                                       *)
(***************************************************************************)
\* at most this many requests are sent by the page in one run of the model
MaxDetailSent == 4
\* at most this many calls of fetchDetailedData are in flight together
MaxDetailCalls == 2

\* the analyses the page is given
Analyses ==
    { [id |-> 1, keywords |-> <<"ai">>, created_at |-> "2024-01-01",
       timeframe |-> "today 3-m", geo |-> "US"],
      [id |-> 2, keywords |-> <<"ai", "ml">>, created_at |-> "2024-01-02",
       timeframe |-> "now 7-d", geo |-> ""] }

\* the series the server answers with
DetailSeries ==
    { <<>>, <<1, 3>>, <<100, 0>>,
      Periodic(<<1, 2, 1, 1, 1, 1, 1>>, 14) }

\* a trend of the response: TrendData
Trend(keyword, series) ==
    [keyword |-> keyword, search_volume |-> series,
     timestamps |-> [i \in 1..Len(series) |-> i]]

\* trendsResponse.data.trends: no trend, or one trend for each keyword asked for
TrendResponses(keywords) ==
    {<<>>} \cup
    { [i \in 1..Len(keywords) |-> Trend(keywords[i], f[i])] :
        f \in [1..Len(keywords) -> DetailSeries] }

\* insightsResponse.data: the insights, by their ids
InsightResponses == { <<>>, [i \in 1..11 |-> i] }

allowedTimeframes ==
    {"now 1-H", "now 4-H", "now 1-d", "today 1-m", "today 3-m", "today 12-m", "today 5-y"}

\* trendsResponse.data.trends.map(trend => ({...trend, pattern_analysis: ...}))
detailedData(trendList) ==
    [i \in 1..Len(trendList) |->
        [keyword |-> trendList[i].keyword,
         search_volume |-> trendList[i].search_volume,
         timestamps |-> trendList[i].timestamps,
         pattern_analysis |-> analyzeTrendPattern(trendList[i].search_volume)]]

\* the body ApiService.searchTrends posts for TrendsService.searchTrends
SearchTrendsRequest(a, cause) ==
    LET timeframe == IF a.timeframe \in allowedTimeframes THEN a.timeframe ELSE "today 3-m"
    IN  [op |-> "searchTrends", keywords |-> a.keywords,
         timeframe |-> IF timeframe = "" THEN "today 3-m" ELSE timeframe,
         geo |-> IF a.geo = "" THEN "US" ELSE a.geo,
         cause |-> cause]

\* the body ApiService.getInsights posts for TrendsService.getTrendInsights
InsightsRequest(a, cause) ==
    [op |-> "getInsights", keywords |-> a.keywords, timeframe |-> a.timeframe,
     geo |-> Null, cause |-> cause]

\* the sequence without its i-th element
RemoveAt(seq, i) == SubSeq(seq, 1, i - 1) \o SubSeq(seq, i + 1, Len(seq))

\* fetchDetailedData up to its first await
StartFetch(a, by) ==
    LET cause == [by |-> by, action |-> triggers + 1]
    IN  /\ Len(detailSent) + 2 <= MaxDetailSent
        /\ Len(detailCalls) < MaxDetailCalls
        /\ detailLoading' = TRUE
        /\ detailError' = Null
        /\ detailCalls' = Append(detailCalls,
                                 [pc |-> "trends", analysis |-> a, cause |-> cause])
        /\ detailSent' = Append(detailSent, SearchTrendsRequest(a, cause))
    /\ triggers' = triggers + 1

\* useEffect(() => { fetchDetailedData(); }, [analysis]) when the page is mounted
DetailMount ==
    /\ mounted = "AnalysisDetail"
    /\ analysis = NoResult
    /\ \E a \in Analyses :
          /\ analysis' = a
          /\ StartFetch(a, "mount")
    /\ UNCHANGED <<trendData, insights, artifact>>
    /\ UNCHANGED notDetailVars

\* the same effect when the user opens another analysis
ChangeAnalysis ==
    /\ analysis # NoResult
    /\ \E a \in Analyses \ {analysis} :
          /\ analysis' = a
          /\ StartFetch(a, "analysis")
    /\ UNCHANGED <<trendData, insights, artifact>>
    /\ UNCHANGED notDetailVars

\* the Retry button of the error view
RetryDetail ==
    /\ analysis # NoResult
    /\ ~detailLoading
    /\ detailError # Null
    /\ StartFetch(analysis, "retry")
    /\ UNCHANGED <<analysis, trendData, insights, artifact>>
    /\ UNCHANGED notDetailVars

\* fetchDetailedData from the answer of searchTrends to its second await.
\* TrendsService.searchTrends turns a failed request into success: false.  An
\* answer that reports success with data that holds no trends array makes
\* .map throw, which the catch turns into the error message.
TrendsReturn ==
    \E i \in 1..Len(detailCalls) :
        /\ detailCalls[i].pc = "trends"
        /\ \/ /\ \E trendList \in TrendResponses(detailCalls[i].analysis.keywords) :
                    trendData' = detailedData(trendList)
              /\ detailCalls' = [detailCalls EXCEPT ![i].pc = "insights"]
              /\ detailSent' = Append(detailSent,
                     InsightsRequest(detailCalls[i].analysis, detailCalls[i].cause))
              /\ UNCHANGED <<detailLoading, detailError>>
           \/ /\ detailCalls' = [detailCalls EXCEPT ![i].pc = "insights"]
              /\ detailSent' = Append(detailSent,
                     InsightsRequest(detailCalls[i].analysis, detailCalls[i].cause))
              /\ UNCHANGED <<trendData, detailLoading, detailError>>
           \/ /\ \E message \in {"", "trends is undefined"} :
                    detailError' = IF message # "" THEN message
                                   ELSE "Failed to fetch detailed analysis data"
              /\ detailLoading' = FALSE
              /\ detailCalls' = RemoveAt(detailCalls, i)
              /\ UNCHANGED <<trendData, detailSent>>
        /\ UNCHANGED <<analysis, insights, artifact, triggers>>
        /\ UNCHANGED notDetailVars

\* fetchDetailedData from the answer of getTrendInsights to its end
InsightsReturn ==
    \E i \in 1..Len(detailCalls) :
        /\ detailCalls[i].pc = "insights"
        /\ \/ \E data \in InsightResponses : insights' = data
           \/ UNCHANGED insights
        /\ detailLoading' = FALSE
        /\ detailCalls' = RemoveAt(detailCalls, i)
        /\ UNCHANGED <<analysis, trendData, detailError, detailSent, artifact, triggers>>
        /\ UNCHANGED notDetailVars

\* Math.round
MathRound(a) == IF IsFinite(a) THEN FromInt((2 * a.n + a.d) \div (2 * a.d)) ELSE a

\* Math.max(...vals), -Infinity for no value
RECURSIVE MaxFrom(_, _, _)
MaxFrom(vals, i, max) ==
    IF i > Len(vals) THEN max
    ELSE MaxFrom(vals, i + 1, MathMax(max, FromInt(vals[i])))

MathMaxOf(vals) == MaxFrom(vals, 1, [n |-> -1, d |-> 0])

\* trendData.flatMap(trend => trend.search_volume)
RECURSIVE FlatFrom(_, _)
FlatFrom(trendList, i) ==
    IF i > Len(trendList) THEN <<>>
    ELSE trendList[i].search_volume \o FlatFrom(trendList, i + 1)

\* trendData.reduce((sum, trend) => sum + trend.search_volume.reduce(...), 0)
RECURSIVE TotalFrom(_, _, _)
TotalFrom(trendList, i, sum) ==
    IF i > Len(trendList) THEN sum
    ELSE TotalFrom(trendList, i + 1, Add(sum, SumFrom(trendList[i].search_volume, 1, Zero)))

\* search_volume.includes(x)
Includes(vals, x) == \E i \in 1..Len(vals) : FromInt(vals[i]) = x

\* search_volume.indexOf(x), counted from 1
IndexOf(vals, x) == CHOOSE i \in 1..Len(vals) :
                        /\ FromInt(vals[i]) = x
                        /\ \A j \in 1..(i - 1) : FromInt(vals[j]) # x

calculateOverallStats(trendList) ==
    LET totalVolume == TotalFrom(trendList, 1, Zero)
        avgVolume == Div(totalVolume, FromInt(Len(trendList)))
        peakVolume == MathMaxOf(FlatFrom(trendList, 1))
        found == {i \in 1..Len(trendList) : Includes(trendList[i].search_volume, peakVolume)}
        peakTrend == IF found = {} THEN Undefined
                     ELSE trendList[CHOOSE i \in found : \A j \in found : i <= j]
    IN  [totalVolume |-> totalVolume,
         avgVolume |-> MathRound(avgVolume),
         peakVolume |-> peakVolume,
         peakDate |-> IF peakTrend = Undefined THEN JsNull
                      ELSE [date |-> peakTrend.timestamps[
                                         IndexOf(peakTrend.search_volume, peakVolume)]],
         peakKeyword |-> IF peakTrend = Undefined THEN Null ELSE peakTrend.keyword]

\* insights.slice(0, 10)
Slice10(seq) == SubSeq(seq, 1, IF Len(seq) < 10 THEN Len(seq) ELSE 10)

\* exportData with the two volumes of a trend taken for each other
exportData_SwappedVolumes(a, trendList, ins) ==
    [analysis |-> a,
     statistics |-> calculateOverallStats(trendList),
     trends |-> [i \in 1..Len(trendList) |->
                    [keyword |-> trendList[i].keyword,
                     total_volume |-> MathMaxOf(trendList[i].search_volume),
                     peak_volume |-> SumFrom(trendList[i].search_volume, 1, Zero),
                     pattern |-> trendList[i].pattern_analysis]],
     insights |-> Slice10(ins)]

\* const exportData = {...} of exportAnalysis
exportData(a, trendList, ins) ==
    [analysis |-> a,
     statistics |-> calculateOverallStats(trendList),
     trends |-> [i \in 1..Len(trendList) |->
                    [keyword |-> trendList[i].keyword,
                     total_volume |-> SumFrom(trendList[i].search_volume, 1, Zero),
                     peak_volume |-> MathMaxOf(trendList[i].search_volume),
                     pattern |-> trendList[i].pattern_analysis]],
     insights |-> Slice10(ins)]

(***************************************************************************)
(* JSON.stringify and JSON.parse on the exported object.  The text is      *)
(* kept as the tree of its tokens: [num |-> x] a number literal,           *)
(* [str |-> s] a string literal, [lit |-> "null"] the literal null, a      *)
(* sequence an array and a record an object.  A property whose value is    *)
(* undefined is left out of the text; NaN, Infinity and -Infinity are      *)
(* written null.                                                           *)
(***************************************************************************)
NullLiteral == [lit |-> "null"]

StringifyNumber(x) == IF IsFinite(x) THEN [num |-> x] ELSE NullLiteral

\* Math.sqrt(v) / m as a number literal
StringifySurd(s) == IF IsFinite(s.sq) THEN [num |-> s] ELSE NullLiteral

StringifyString(s) == [str |-> s]

StringifyPattern(p) ==
    LET always == [trend_type |-> StringifyString(p.trend_type),
                   growth_rate |-> StringifyNumber(p.growth_rate),
                   volatility |-> StringifySurd(p.volatility)]
    IN  IF p.seasonal_strength = Undefined THEN always
        ELSE always @@ [seasonal_strength |-> StringifyNumber(p.seasonal_strength)]

StringifyStatistics(st) ==
    LET always == [totalVolume |-> StringifyNumber(st.totalVolume),
                   avgVolume |-> StringifyNumber(st.avgVolume),
                   peakVolume |-> StringifyNumber(st.peakVolume),
                   peakDate |-> IF st.peakDate = JsNull THEN NullLiteral
                                ELSE [num |-> FromInt(st.peakDate.date)]]
    IN  IF st.peakKeyword = Null THEN always
        ELSE always @@ [peakKeyword |-> StringifyString(st.peakKeyword)]

\* JSON.stringify(exportData, null, 2)
JSONstringify(data) ==
    [analysis |-> [id |-> StringifyNumber(FromInt(data.analysis.id)),
                   keywords |-> [i \in 1..Len(data.analysis.keywords) |->
                                    StringifyString(data.analysis.keywords[i])],
                   created_at |-> StringifyString(data.analysis.created_at),
                   timeframe |-> StringifyString(data.analysis.timeframe),
                   geo |-> StringifyString(data.analysis.geo)],
     statistics |-> StringifyStatistics(data.statistics),
     trends |-> [i \in 1..Len(data.trends) |->
                    [keyword |-> StringifyString(data.trends[i].keyword),
                     total_volume |-> StringifyNumber(data.trends[i].total_volume),
                     peak_volume |-> StringifyNumber(data.trends[i].peak_volume),
                     pattern |-> StringifyPattern(data.trends[i].pattern)]],
     insights |-> [i \in 1..Len(data.insights) |->
                      StringifyNumber(FromInt(data.insights[i]))]]

\* the value of a number literal or of null
ParseNumber(t) == IF t = NullLiteral THEN JsNull ELSE t.num

ParseString(t) == t.str

\* JSON.parse of the parts of the exported text a reader compares
JSONparse(text) ==
    [analysis |-> [id |-> ParseNumber(text.analysis.id),
                   keywords |-> [i \in 1..Len(text.analysis.keywords) |->
                                    ParseString(text.analysis.keywords[i])]],
     statistics |-> [totalVolume |-> ParseNumber(text.statistics.totalVolume),
                     avgVolume |-> ParseNumber(text.statistics.avgVolume),
                     peakVolume |-> ParseNumber(text.statistics.peakVolume)],
     trends |-> [i \in 1..Len(text.trends) |->
                    [keyword |-> ParseString(text.trends[i].keyword),
                     total_volume |-> ParseNumber(text.trends[i].total_volume),
                     peak_volume |-> ParseNumber(text.trends[i].peak_volume),
                     pattern |-> [trend_type |->
                                     ParseString(text.trends[i].pattern.trend_type)]]]]

\* exportAnalysis, the Export button of the loaded page.  The artifact is kept
\* with the analysis and the trends it was made of.
ExportAnalysis ==
    /\ analysis # NoResult
    /\ ~detailLoading
    /\ detailError = Null
    /\ artifact' = [text |-> JSONstringify(exportData(analysis, trendData, insights)),
                    analysis |-> analysis,
                    trendData |-> trendData]
    /\ UNCHANGED <<analysis, trendData, insights, detailLoading, detailError,
                   detailCalls, detailSent, triggers>>
    /\ UNCHANGED notDetailVars

InitDetail ==
    /\ AnalyzerIdle
    /\ mounted = "AnalysisDetail"
    /\ ComponentsIdle

NextDetail ==
    \/ DetailMount
    \/ ChangeAnalysis
    \/ RetryDetail
    \/ TrendsReturn
    \/ InsightsReturn
    \/ ExportAnalysis

SpecDetail == InitDetail /\ [][NextDetail]_vars

(***************************************************************************)
(* C13.  Re-parsing the exported JSON artifact yields, for every trend     *)
(* held when exportAnalysis ran, the same keyword, the same total volume   *)
(* (the sum of its observations) and the same trend_type as were held at   *)
(* that time, and the same analysis keyword list.                          *)
(***************************************************************************)
Exported == artifact # NoResult

Reparsed == JSONparse(artifact.text)

C13_ExportRoundTrip ==
    Exported =>
        /\ Reparsed.analysis.keywords = artifact.analysis.keywords
        /\ Len(Reparsed.trends) = Len(artifact.trendData)
        /\ \A i \in 1..Len(artifact.trendData) :
              /\ Reparsed.trends[i].keyword = artifact.trendData[i].keyword
              /\ Reparsed.trends[i].total_volume =
                     FromInt(SumRange(artifact.trendData[i].search_volume, 1,
                                      Len(artifact.trendData[i].search_volume)))
              /\ Reparsed.trends[i].pattern.trend_type =
                     artifact.trendData[i].pattern_analysis.trend_type

\* an export of two trends, one of them seasonal and one without observations
C13_Witness ==
    /\ Exported
    /\ Len(artifact.trendData) = 2
    /\ \E i \in 1..2 : artifact.trendData[i].pattern_analysis.trend_type = "seasonal"
    /\ \E i \in 1..2 : artifact.trendData[i].search_volume = <<>>

(***************************************************************************)
(* The hooks useTrends (src/frontend/src/hooks/useTrends.tsx),             *)
(* useWatchlists (src/frontend/src/hooks/useWatchlists.tsx) and            *)
(* useAnalytics (src/unnamed/part_011).  Every operation of a hook sets    *)
(* loading and clears error, awaits one request, and ends in a finally     *)
(* that clears loading.  The component that uses a hook may call its       *)
(* operations at any time.                                                 *)
(***************************************************************************)
\* at most this many calls are made in one run of the model
MaxHookCalls == 2

\* the operations of each hook
OpsOf(h) ==
    IF h = "useTrends" THEN {"searchTrends", "predictTrend"}
    ELSE IF h = "useWatchlists" THEN {"fetchWatchlists", "createWatchlist"}
    ELSE {"fetchDashboardStats", "fetchAnalyses", "getModelStatus", "trainModels"}

\* the message an operation falls back to
DefaultMessage(op) ==
    CASE op = "searchTrends" -> "Failed to fetch trends"
      [] op = "predictTrend" -> "Prediction failed"
      [] op = "fetchWatchlists" -> "Failed to fetch watchlists"
      [] op = "createWatchlist" -> "Failed to create watchlist"
      [] op = "updateWatchlist" -> "Failed to update watchlist"
      [] op = "deleteWatchlist" -> "Failed to delete watchlist"
      [] op = "analyzeWatchlist" -> "Failed to analyze watchlist"
      [] op = "fetchDashboardStats" -> "Failed to fetch dashboard stats"
      [] op = "fetchAnalyses" -> "Failed to fetch analyses"
      [] op = "getModelStatus" -> "Failed to get model status"
      [] op = "trainModels" -> "Failed to start model training"

\* a || b on strings that may be null, undefined or empty
Or(a, b) == IF a = Null \/ a = "" THEN b ELSE a

\* How a request ends: answered with success: true; answered with success: false
\* and an error text that may be missing or empty; or failed (no answer, a
\* timeout, an HTTP error status), with the error text of the error's response,
\* if any, and the error's own message.
Outcomes ==
    {[kind |-> "ok", error |-> Null, message |-> Null]}
    \cup {[kind |-> "refused", error |-> e, message |-> Null] :
             e \in {Null, "", "quota exceeded"}}
    \cup {[kind |-> "thrown", error |-> e, message |-> m] :
             e \in {Null, "", "bad request"}, m \in {"", "Network Error"}}

\* response.data of the answer to a call: the rows the server sent for it
DataOf(call) == [response |-> call.id]

\* the error an operation's catch block stores, for an outcome that reaches it
CaughtMessage(op, outcome) ==
    IF op \in OpsOf("useTrends")
    THEN Or(outcome.error, DefaultMessage(op))
    ELSE IF op \in {"createWatchlist", "updateWatchlist", "deleteWatchlist"}
    THEN IF outcome.kind = "refused"
         THEN Or(Or(outcome.error, DefaultMessage(op)), DefaultMessage(op))
         ELSE Or(outcome.message, DefaultMessage(op))
    ELSE IF outcome.kind = "refused"
         THEN Or(Null, Or(Or(outcome.error, DefaultMessage(op)), DefaultMessage(op)))
         ELSE Or(outcome.error, Or(outcome.message, DefaultMessage(op)))

\* does the outcome reach the operation's catch block?  The operations of
\* useTrends have no else branch: success: false falls through to finally.
Caught(op, outcome) ==
    \/ outcome.kind = "thrown"
    \/ outcome.kind = "refused" /\ op \notin OpsOf("useTrends")

\* an operation of a hook up to its await
HookStart(h, op, action) ==
    /\ hookLoading' = [hookLoading EXCEPT ![h] = TRUE]
    /\ hookError' = [hookError EXCEPT ![h] = Null]
    /\ hookCalls' = hookCalls \cup {[id |-> hookIssued + 1, hook |-> h, op |-> op,
                                    action |-> action]}
    /\ hookIssued' = hookIssued + 1
    /\ UNCHANGED <<trends, watchlists, analyticsData, hookArrived>>

\* HookFinish with the answer of any call but the latest one dropped
HookFinish_IgnoresStale(call, outcome) ==
    /\ hookCalls' = hookCalls \ {call}
    /\ hookArrived' = Append(hookArrived,
                             [id |-> call.id, hook |-> call.hook, op |-> call.op,
                              action |-> call.action, kind |-> outcome.kind,
                              issued |-> hookIssued])
    /\ hookLoading' = [hookLoading EXCEPT ![call.hook] = FALSE]
    /\ hookError' = IF Caught(call.op, outcome)
                    THEN [hookError EXCEPT ![call.hook] = CaughtMessage(call.op, outcome)]
                    ELSE hookError
    /\ trends' = IF outcome.kind = "ok" /\ call.op = "searchTrends" /\ call.id = hookIssued
                 THEN DataOf(call) ELSE trends
    /\ watchlists' = IF outcome.kind = "ok" /\ call.op = "fetchWatchlists"
                     THEN <<DataOf(call)>>
                     ELSE IF outcome.kind = "ok" /\ call.op = "createWatchlist"
                     THEN Append(watchlists, DataOf(call))
                     ELSE watchlists
    /\ analyticsData' = IF outcome.kind = "ok" /\ call.op = "fetchDashboardStats"
                        THEN DataOf(call) ELSE analyticsData
    /\ UNCHANGED hookIssued

\* an operation of a hook from the end of its request to its return
HookFinish(call, outcome) ==
    /\ hookCalls' = hookCalls \ {call}
    /\ hookArrived' = Append(hookArrived,
                             [id |-> call.id, hook |-> call.hook, op |-> call.op,
                              action |-> call.action, kind |-> outcome.kind,
                              issued |-> hookIssued])
    /\ hookLoading' = [hookLoading EXCEPT ![call.hook] = FALSE]
    /\ hookError' = IF Caught(call.op, outcome)
                    THEN [hookError EXCEPT ![call.hook] = CaughtMessage(call.op, outcome)]
                    ELSE hookError
    /\ trends' = IF outcome.kind = "ok" /\ call.op = "searchTrends"
                 THEN DataOf(call) ELSE trends
    /\ watchlists' = IF outcome.kind = "ok" /\ call.op = "fetchWatchlists"
                     THEN <<DataOf(call)>>
                     ELSE IF outcome.kind = "ok" /\ call.op = "createWatchlist"
                     THEN Append(watchlists, DataOf(call))
                     ELSE watchlists
    /\ analyticsData' = IF outcome.kind = "ok" /\ call.op = "fetchDashboardStats"
                        THEN DataOf(call) ELSE analyticsData
    /\ UNCHANGED hookIssued

\* a component calls an operation of a hook
HookCall ==
    /\ mounted = "hooks"
    /\ hookIssued < MaxHookCalls
    /\ \E h \in Hooks : \E op \in OpsOf(h) : HookStart(h, op, triggers + 1)
    /\ triggers' = triggers + 1
    /\ UNCHANGED notHookVars

\* the request of a call ends and the operation runs to its return
HookReturn ==
    /\ mounted = "hooks"
    /\ \E call \in hookCalls : \E outcome \in Outcomes : HookFinish(call, outcome)
    /\ UNCHANGED triggers
    /\ UNCHANGED notHookVars

\* clearError of useWatchlists and useAnalytics
ClearError ==
    /\ mounted = "hooks"
    /\ \E h \in {"useWatchlists", "useAnalytics"} :
          /\ hookError[h] # Null
          /\ hookError' = [hookError EXCEPT ![h] = Null]
    /\ UNCHANGED <<hookLoading, trends, watchlists, analyticsData, hookCalls,
                   hookIssued, hookArrived, triggers>>
    /\ UNCHANGED notHookVars

InitHooks ==
    /\ AnalyzerIdle
    /\ mounted = "hooks"
    /\ ComponentsIdle

NextHooks == HookCall \/ HookReturn \/ ClearError

SpecHooks == InitHooks /\ [][NextHooks]_vars

(***************************************************************************)
(* C14.  In every reachable state of a hook, loading is true whenever at   *)
(* least one request issued through that hook has not yet completed,       *)
(* including when two of its operations overlap.                           *)
(***************************************************************************)
InFlight(h) == {call \in hookCalls : call.hook = h}

C14_LoadingWhileInFlight ==
    \A h \in Hooks : InFlight(h) # {} => hookLoading[h]

(***************************************************************************)
(* C16.  In-flight requests are never cancelled and answers are applied in *)
(* arrival order: when two searchTrends calls through useTrends overlap,   *)
(* the trends state after both have completed is the data of the response  *)
(* that arrived last, even when that response belongs to the request that  *)
(* was issued first.                                                       *)
(***************************************************************************)
IsSearch(entry) == entry.op = "searchTrends"

IsOkSearch(entry) == entry.op = "searchTrends" /\ entry.kind = "ok"

\* the answers to searchTrends, in arrival order
SearchArrivals == SelectSeq(hookArrived, IsSearch)

\* those of them that reported success
OkSearchArrivals == SelectSeq(hookArrived, IsOkSearch)

\* two searchTrends calls overlapped: the one that answered later had been issued
\* when the other answered
SearchesOverlapped ==
    \E i, j \in 1..Len(SearchArrivals) :
        i < j /\ SearchArrivals[j].id <= SearchArrivals[i].issued

\* every searchTrends call has completed
SearchesCompleted == \A call \in hookCalls : call.op # "searchTrends"

\* the claim as it is written: the data of whatever arrived last
C16_LastArrivalWins ==
    (SearchesOverlapped /\ SearchesCompleted) =>
        trends = DataOf(SearchArrivals[Len(SearchArrivals)])

\* C16 as amended: the data of the last answer that arrived with success: true;
\* an answer with success: false and a failed request leave trends as it was
C16_LastSuccessWins ==
    (SearchesOverlapped /\ SearchesCompleted) =>
        trends = IF OkSearchArrivals = <<>> THEN EmptyObject
                 ELSE DataOf(OkSearchArrivals[Len(OkSearchArrivals)])

\* the call issued first answered last, after the answer of the second, and won
C16_Witness ==
    /\ SearchesCompleted
    /\ Len(OkSearchArrivals) = 2
    /\ OkSearchArrivals[1].id = 2
    /\ OkSearchArrivals[2].id = 1
    /\ trends = DataOf(OkSearchArrivals[2])

(***************************************************************************)
(* C18.  Every failed request, whether the request itself fails or it is   *)
(* answered with success: false, ends with a non-empty error message in    *)
(* the state of the hook that issued it: no failure completes with the     *)
(* error state still empty.                                                *)
(***************************************************************************)
\* a call of a hook returns in this step
CallReturns == Len(hookArrived') = Len(hookArrived) + 1

C18_FailureStep ==
    CallReturns =>
        LET entry == hookArrived'[Len(hookArrived')]
        IN  entry.kind # "ok" =>
                (hookError'[entry.hook] # Null /\ hookError'[entry.hook] # "")

C18_EveryFailureShown == [][C18_FailureStep]_vars

(***************************************************************************)
(* The pages with a form: Search with TrendSearch                          *)
(* (src/frontend/src/pages/Search.tsx, components/trends/TrendSearch.tsx), *)
(* Dashboard with QuickAnalysis (src/unnamed/part_007, part_000) and       *)
(* Watchlists with WatchlistForm (src/frontend/src/pages/Watchlists.tsx,   *)
(* components/watchlists/WatchlistForm.tsx).                               *)
(***************************************************************************)
\* at most this many user actions that call a request-sending handler
MaxTriggers == 3

\* the texts a user types
Queries == {"ai", "ai, ml"}

\* query.split(',').map(k => k.trim()).filter(k => k), and search.split(', ')
SplitKeywords(text) == IF text = "ai" THEN <<"ai">> ELSE <<"ai", "ml">>

\* keywords.join(', ')
JoinKeywords(keywords) == IF keywords = <<"ai">> THEN "ai" ELSE "ai, ml"

\* disabled={loading || (!query.trim() && keywords.length === 0)} of TrendSearch,
\* loading being the loading of the page's useTrends()
TrendSearchDisabled == hookLoading["useTrends"] \/ query = ""

\* Search.handleSearch up to its await: it calls ApiService.searchTrends itself
HandleSearch(keywords) ==
    /\ triggers < MaxTriggers
    /\ searchCalls' = searchCalls \cup
           {[id |-> searchIssued + 1, keywords |-> keywords, action |-> triggers + 1]}
    /\ searchIssued' = searchIssued + 1
    /\ triggers' = triggers + 1

\* the user types keywords into the form
TypeQuery ==
    /\ mounted = "Search"
    /\ query = ""
    /\ \E text \in Queries : query' = text
    /\ UNCHANGED <<results, searchHistory, searchCalls, searchIssued, triggers>>
    /\ UNCHANGED notSearchVars

\* TrendSearch.handleSubmit
SubmitSearch ==
    /\ mounted = "Search"
    /\ ~TrendSearchDisabled
    /\ HandleSearch(SplitKeywords(query))
    /\ query' = ""
    /\ UNCHANGED <<results, searchHistory>>
    /\ UNCHANGED notSearchVars

\* a button of the recent searches
ClickRecentSearch ==
    /\ mounted = "Search"
    /\ results = JsNull
    /\ \E i \in 1..Len(searchHistory) : HandleSearch(SplitKeywords(searchHistory[i]))
    /\ UNCHANGED <<query, results, searchHistory>>
    /\ UNCHANGED notSearchVars

\* Search.handleSearch from the end of its request to its return
SearchReturn ==
    /\ mounted = "Search"
    /\ \E call \in searchCalls : \E outcome \in Outcomes :
          /\ searchCalls' = searchCalls \ {call}
          /\ IF outcome.kind = "ok"
             THEN /\ results' = [trends |-> DataOf(call), keywords |-> call.keywords]
                  /\ searchHistory' =
                         <<JoinKeywords(call.keywords)>> \o
                         SubSeq(searchHistory, 1,
                                IF Len(searchHistory) < 4 THEN Len(searchHistory) ELSE 4)
             ELSE UNCHANGED <<results, searchHistory>>
    /\ UNCHANGED <<query, searchIssued, triggers>>
    /\ UNCHANGED notSearchVars

\* the New Search button
ClearResults ==
    /\ mounted = "Search"
    /\ results # JsNull
    /\ results' = JsNull
    /\ UNCHANGED <<query, searchHistory, searchCalls, searchIssued, triggers>>
    /\ UNCHANGED notSearchVars

\* Dashboard.fetchDashboardData up to its await (it leaves error as it is)
FetchDashboardData(action) ==
    /\ dashLoading' = TRUE
    /\ dashCalls' = dashCalls \cup
           {[id |-> dashIssued + 1, op |-> "getDashboardStats", action |-> action]}
    /\ dashIssued' = dashIssued + 1

\* useEffect(() => { fetchDashboardData(); }, [])
DashboardMount ==
    /\ mounted = "Dashboard"
    /\ dashIssued = 0
    /\ FetchDashboardData(triggers + 1)
    /\ triggers' = triggers + 1
    /\ UNCHANGED <<quickKeywords, quickLoading, dashboardData, dashError>>
    /\ UNCHANGED hookVars
    /\ UNCHANGED notDashVars

\* Dashboard.fetchDashboardData from the end of its request to its return
DashboardReturn ==
    /\ mounted = "Dashboard"
    /\ \E call \in dashCalls : \E outcome \in Outcomes :
          /\ dashCalls' = dashCalls \ {call}
          /\ dashboardData' = IF outcome.kind = "ok" THEN DataOf(call) ELSE dashboardData
          /\ dashError' =
                 IF outcome.kind = "refused"
                 THEN Or(outcome.error, "Failed to load dashboard data")
                 ELSE IF outcome.kind = "thrown"
                 THEN Or(outcome.message, "Failed to load dashboard data")
                 ELSE dashError
    /\ dashLoading' = FALSE
    /\ UNCHANGED <<quickKeywords, quickLoading, dashIssued, triggers>>
    /\ UNCHANGED hookVars
    /\ UNCHANGED notDashVars

\* the Retry button of the Dashboard's error view
RetryDashboard ==
    /\ mounted = "Dashboard"
    /\ ~dashLoading
    /\ dashError # Null
    /\ triggers < MaxTriggers
    /\ FetchDashboardData(triggers + 1)
    /\ triggers' = triggers + 1
    /\ UNCHANGED <<quickKeywords, quickLoading, dashboardData, dashError>>
    /\ UNCHANGED hookVars
    /\ UNCHANGED notDashVars

\* QuickAnalysis is rendered
QuickAnalysisShown ==
    /\ mounted = "Dashboard"
    /\ ~dashLoading
    /\ dashError = Null
    /\ dashboardData # JsNull

\* disabled={loading || !keywords.trim()} of QuickAnalysis
QuickAnalysisDisabled == quickLoading \/ quickKeywords = ""

\* the user types keywords into QuickAnalysis
TypeQuick ==
    /\ QuickAnalysisShown
    /\ quickKeywords = ""
    /\ \E text \in Queries : quickKeywords' = text
    /\ UNCHANGED <<quickLoading, dashboardData, dashLoading, dashError, dashCalls,
                   dashIssued, triggers>>
    /\ UNCHANGED hookVars
    /\ UNCHANGED notDashVars

\* QuickAnalysis.handleSubmit up to the await of Dashboard.handleQuickAnalysis,
\* which calls searchTrends of the page's useTrends()
SubmitQuick ==
    /\ QuickAnalysisShown
    /\ ~QuickAnalysisDisabled
    /\ triggers < MaxTriggers
    /\ quickLoading' = TRUE
    /\ HookStart("useTrends", "searchTrends", triggers + 1)
    /\ triggers' = triggers + 1
    /\ UNCHANGED <<quickKeywords, dashboardData, dashLoading, dashError, dashCalls,
                   dashIssued>>
    /\ UNCHANGED notDashVars

\* searchTrends returns or throws; handleQuickAnalysis refreshes the dashboard or
\* stores its error; QuickAnalysis.handleSubmit runs its finally
QuickReturn ==
    /\ mounted = "Dashboard"
    /\ \E call \in hookCalls : \E outcome \in Outcomes :
          /\ HookFinish(call, outcome)
          /\ IF outcome.kind = "thrown"
             THEN /\ dashError' = "Quick analysis failed. Please try again."
                  /\ UNCHANGED <<dashLoading, dashCalls, dashIssued>>
             ELSE /\ FetchDashboardData(call.action)
                  /\ UNCHANGED dashError
    /\ quickLoading' = FALSE
    /\ quickKeywords' = ""
    /\ UNCHANGED <<dashboardData, triggers>>
    /\ UNCHANGED notDashVars

\* Watchlists.fetchWatchlists up to its await
FetchWatchlists(action, from, rest) ==
    /\ wlLoading' = TRUE
    /\ wlError' = Null
    /\ wlCalls' = rest \cup
           {[id |-> wlIssued + 1, op |-> "getWatchlists", action |-> action,
             from |-> from]}
    /\ wlIssued' = wlIssued + 1

\* useEffect(() => { fetchWatchlists(); }, [])
WatchlistsMount ==
    /\ mounted = "Watchlists"
    /\ wlIssued = 0
    /\ FetchWatchlists(triggers + 1, 0, wlCalls)
    /\ triggers' = triggers + 1
    /\ UNCHANGED <<showCreateForm, pageWatchlists, wlSubmitted, analyzingWatchlist,
                   analysisData, analysed>>
    /\ UNCHANGED notWlVars

\* response.data of getWatchlists: one watchlist, as this response gives it
WatchlistsOf(call) == <<[id |-> 1, response |-> call.id]>>

\* Watchlists.fetchWatchlists from the end of its request to its return, and the
\* finally of the handleAnalyzeWatchlist that awaited it
WatchlistsReturn ==
    /\ mounted = "Watchlists"
    /\ \E call \in wlCalls : \E outcome \in Outcomes :
          /\ call.op = "getWatchlists"
          /\ wlCalls' = wlCalls \ {call}
          /\ pageWatchlists' = IF outcome.kind = "ok" THEN WatchlistsOf(call)
                               ELSE pageWatchlists
          /\ analyzingWatchlist' = IF call.from # 0 THEN 0 ELSE analyzingWatchlist
          /\ analysed' = IF call.from # 0 /\ analysisData # JsNull THEN call.from
                         ELSE analysed
          /\ wlError' =
                 IF outcome.kind = "refused"
                 THEN Or(outcome.error, "Failed to fetch watchlists")
                 ELSE IF outcome.kind = "thrown"
                 THEN Or(outcome.message, "Failed to fetch watchlists")
                 ELSE wlError
    /\ wlLoading' = FALSE
    /\ UNCHANGED <<showCreateForm, wlIssued, wlSubmitted, triggers, analysisData>>
    /\ UNCHANGED notWlVars

\* the Create Watchlist button
OpenCreateForm ==
    /\ mounted = "Watchlists"
    /\ wlIssued > 0
    /\ ~wlLoading
    /\ ~showCreateForm
    /\ showCreateForm' = TRUE
    /\ UNCHANGED <<pageWatchlists, wlLoading, wlError, wlCalls, wlIssued, wlSubmitted,
                   triggers, analyzingWatchlist, analysisData, analysed>>
    /\ UNCHANGED notWlVars

\* the loading property of WatchlistForm, which the page does not pass
WatchlistFormLoading == FALSE

\* WatchlistForm.handleSubmit with Watchlists.handleCreateWatchlist.  ApiService
\* has no createWatchlist: ApiService.createWatchlist?.(formData) is undefined,
\* no request is sent and response?.success is undefined.
SubmitWatchlistForm ==
    /\ mounted = "Watchlists"
    /\ showCreateForm
    /\ ~wlLoading
    /\ ~WatchlistFormLoading
    /\ wlSubmitted < MaxTriggers
    /\ wlSubmitted' = wlSubmitted + 1
    /\ UNCHANGED <<showCreateForm, pageWatchlists, wlLoading, wlError, wlCalls, wlIssued,
                   triggers, analyzingWatchlist, analysisData, analysed>>
    /\ UNCHANGED notWlVars

\* onCancel of WatchlistForm
CancelWatchlistForm ==
    /\ mounted = "Watchlists"
    /\ showCreateForm
    /\ showCreateForm' = FALSE
    /\ UNCHANGED <<pageWatchlists, wlLoading, wlError, wlCalls, wlIssued, wlSubmitted,
                   triggers, analyzingWatchlist, analysisData, analysed>>
    /\ UNCHANGED notWlVars

InitForms ==
    /\ AnalyzerIdle
    /\ mounted \in {"Search", "Dashboard", "Watchlists"}
    /\ ComponentsIdle

NextForms ==
    \/ TypeQuery
    \/ SubmitSearch
    \/ ClickRecentSearch
    \/ SearchReturn
    \/ ClearResults
    \/ DashboardMount
    \/ DashboardReturn
    \/ RetryDashboard
    \/ TypeQuick
    \/ SubmitQuick
    \/ QuickReturn
    \/ WatchlistsMount
    \/ WatchlistsReturn
    \/ OpenCreateForm
    \/ SubmitWatchlistForm
    \/ CancelWatchlistForm

SpecForms == InitForms /\ [][NextForms]_vars

(***************************************************************************)
(* C15.  For each form (TrendSearch on the Search page, WatchlistForm on   *)
(* the Watchlists page, QuickAnalysis on the Dashboard), while a request   *)
(* started by a submission of the form has not completed, the form's       *)
(* submit control is disabled, so at most one request per form is in       *)
(* flight.                                                                 *)
(***************************************************************************)
\* the requests in flight that a submission of each form started
TrendSearchInFlight == searchCalls
QuickAnalysisInFlight == {call \in hookCalls : mounted = "Dashboard"}
WatchlistFormInFlight == {call \in wlCalls : call.op = "createWatchlist"}

C15_NoDuplicateSubmission ==
    /\ TrendSearchInFlight # {} => TrendSearchDisabled
    /\ Cardinality(TrendSearchInFlight) <= 1
    /\ QuickAnalysisInFlight # {} => QuickAnalysisDisabled
    /\ Cardinality(QuickAnalysisInFlight) <= 1
    /\ WatchlistFormInFlight # {} => WatchlistFormLoading
    /\ Cardinality(WatchlistFormInFlight) <= 1

(***************************************************************************)
(* MLModels (src/unnamed/part_006): the page of the models.  fetchModels   *)
(* runs when the page is mounted, from the Refresh button, from the        *)
(* dismiss button of the error view and at the end of a successful         *)
(* handleTrainModel.                                                       *)
(***************************************************************************)
\* response.data.models: the models, by their ids
ModelResponses == { <<>>, <<"lstm", "prophet">> }

\* MLModels.fetchModels up to its await (it leaves error as it is)
FetchModels(action, from) ==
    /\ mlLoading' = TRUE
    /\ mlCalls' = mlCalls \cup
           {[id |-> Len(mlSent) + 1, op |-> "getModelStatus", action |-> action,
             from |-> from]}
    /\ mlSent' = Append(mlSent, [op |-> "getModelStatus", action |-> action])

\* useEffect(() => { fetchModels(); }, [])
ModelsMount ==
    /\ mounted = "MLModels"
    /\ mlSent = <<>>
    /\ FetchModels(triggers + 1, "page")
    /\ triggers' = triggers + 1
    /\ UNCHANGED <<models, mlError, trainingModel>>
    /\ UNCHANGED notMlVars

\* the Refresh button, and the dismiss button of the error view
RefreshModels ==
    /\ mounted = "MLModels"
    /\ ~mlLoading
    /\ triggers < MaxTriggers
    /\ FetchModels(triggers + 1, "page")
    /\ triggers' = triggers + 1
    /\ UNCHANGED <<models, mlError, trainingModel>>
    /\ UNCHANGED notMlVars

\* ModelsReturn with the request sent again when it failed
ModelsReturn_Retries ==
    /\ mounted = "MLModels"
    /\ \E call \in mlCalls : \E outcome \in Outcomes :
          /\ call.op = "getModelStatus"
          /\ IF outcome.kind = "ok"
             THEN /\ \E list \in ModelResponses : models' = list
                  /\ mlCalls' = mlCalls \ {call}
                  /\ mlLoading' = FALSE
                  /\ UNCHANGED <<mlError, mlSent>>
             ELSE /\ mlCalls' = (mlCalls \ {call}) \cup
                          {[id |-> Len(mlSent) + 1, op |-> "getModelStatus",
                            action |-> call.action, from |-> call.from]}
                  /\ mlSent' = Append(mlSent,
                                      [op |-> "getModelStatus", action |-> call.action])
                  /\ Len(mlSent) < MaxTriggers + 2
                  /\ UNCHANGED <<models, mlError, mlLoading>>
          /\ trainingModel' = trainingModel
    /\ UNCHANGED triggers
    /\ UNCHANGED notMlVars

\* MLModels.fetchModels from the end of its request to its return, and the
\* finally of the handleTrainModel that awaited it
ModelsReturn ==
    /\ mounted = "MLModels"
    /\ \E call \in mlCalls : \E outcome \in Outcomes :
          /\ call.op = "getModelStatus"
          /\ mlCalls' = mlCalls \ {call}
          /\ IF outcome.kind = "ok"
             THEN \E list \in ModelResponses : models' = list
             ELSE UNCHANGED models
          /\ mlError' =
                 IF outcome.kind = "refused"
                 THEN Or(outcome.error, "Failed to fetch models")
                 ELSE IF outcome.kind = "thrown"
                 THEN Or(outcome.message, "Failed to fetch models")
                 ELSE mlError
          /\ trainingModel' = IF call.from = "train" THEN Null ELSE trainingModel
    /\ mlLoading' = FALSE
    /\ UNCHANGED <<mlSent, triggers>>
    /\ UNCHANGED notMlVars

\* the Train button of a model: handleTrainModel up to its await
TrainModel ==
    /\ mounted = "MLModels"
    /\ ~mlLoading
    /\ mlError = Null
    /\ triggers < MaxTriggers
    /\ \E i \in 1..Len(models) :
          /\ trainingModel # models[i]
          /\ trainingModel' = models[i]
    /\ mlCalls' = mlCalls \cup
           {[id |-> Len(mlSent) + 1, op |-> "trainModels", action |-> triggers + 1,
             from |-> "train"]}
    /\ mlSent' = Append(mlSent, [op |-> "trainModels", action |-> triggers + 1])
    /\ triggers' = triggers + 1
    /\ UNCHANGED <<models, mlLoading, mlError>>
    /\ UNCHANGED notMlVars

\* handleTrainModel from the end of its request to its second await or its return
TrainReturn ==
    /\ mounted = "MLModels"
    /\ \E call \in mlCalls : \E outcome \in Outcomes :
          /\ call.op = "trainModels"
          /\ IF outcome.kind = "ok"
             THEN /\ mlLoading' = TRUE
                  /\ mlCalls' = (mlCalls \ {call}) \cup
                         {[id |-> Len(mlSent) + 1, op |-> "getModelStatus",
                           action |-> call.action, from |-> "train"]}
                  /\ mlSent' = Append(mlSent,
                                      [op |-> "getModelStatus", action |-> call.action])
                  /\ UNCHANGED <<mlError, trainingModel>>
             ELSE /\ mlCalls' = mlCalls \ {call}
                  /\ mlError' = IF outcome.kind = "refused"
                                THEN Or(outcome.error, "Training failed")
                                ELSE Or(outcome.message, "Training failed")
                  /\ trainingModel' = Null
                  /\ UNCHANGED <<mlLoading, mlSent>>
    /\ UNCHANGED <<models, triggers>>
    /\ UNCHANGED notMlVars

NextModels == ModelsMount \/ RefreshModels \/ ModelsReturn \/ TrainModel \/ TrainReturn

(***************************************************************************)
(* The components that send requests on their own account: the analysis    *)
(* detail page, the models page and the hooks.  One of them is on screen.  *)
(***************************************************************************)
InitRequests ==
    /\ AnalyzerIdle
    /\ mounted \in {"AnalysisDetail", "MLModels", "hooks"}
    /\ ComponentsIdle

NextRequests == NextDetail \/ NextModels \/ NextHooks

SpecRequests == InitRequests /\ [][NextRequests]_vars

(***************************************************************************)
(* C17.  No request is retried automatically: after a request fails, the   *)
(* client sends no further request for that operation until the user       *)
(* triggers one; every request sent is caused by exactly one user action   *)
(* or component mount.                                                     *)
(***************************************************************************)
\* every request sent so far: its operation and the user action or mount that
\* caused it
RequestsSent ==
    {[n |-> i, op |-> detailSent[i].op, action |-> detailSent[i].cause.action] :
        i \in 1..Len(detailSent)}
    \cup {[n |-> i, op |-> mlSent[i].op, action |-> mlSent[i].action] :
             i \in 1..Len(mlSent)}
    \cup {[n |-> call.id, op |-> call.op, action |-> call.action] : call \in hookCalls}
    \cup {[n |-> hookArrived[i].id, op |-> hookArrived[i].op,
           action |-> hookArrived[i].action] : i \in 1..Len(hookArrived)}

C17_Step ==
    \A r \in RequestsSent' \ RequestsSent :
        \/ r.action = triggers' /\ triggers' = triggers + 1
        \/ /\ triggers' = triggers
           /\ \A q \in RequestsSent : q.action = r.action => q.op # r.op

C17_NoAutomaticRetry ==
    /\ [][C17_Step]_vars
    /\ [](\A r \in RequestsSent : r.action \in 1..triggers)
    /\ [](\A r, q \in RequestsSent : (r.action = q.action /\ r.op = q.op) => r.n = q.n)

\* fetchModels failed and the user asked again
C17_Witness ==
    /\ mlError # Null
    /\ \E i, j \in 1..Len(mlSent) :
          /\ i < j
          /\ mlSent[i].op = "getModelStatus"
          /\ mlSent[j].op = "getModelStatus"
          /\ mlSent[i].action < mlSent[j].action

(***************************************************************************)
(* Authentication: AuthService (src/unnamed/part_008), useAuth, and the    *)
(* Authorization header of the requests of ApiService, useWatchlists and   *)
(* AuthService.  The storage outlives the page; a reload mounts useAuth    *)
(* again.                                                                  *)
(***************************************************************************)
\* the largest expiry (payload.exp, in seconds) of a token the server issues
MaxExp == 1
\* the latest time of the clock, in milliseconds
MaxNow == 1000
\* the most requests of the authentication service awaited at once
MaxAuthCalls == 1

\* a JWT whose payload has the expiry e, and a token that is not a JWT
Jwt(e) == [jwt |-> TRUE, exp |-> e]
OpaqueToken == [jwt |-> FALSE, exp |-> 0]
\* response.data.data.token
ServerTokens == {Jwt(e) : e \in 1..MaxExp} \cup {OpaqueToken}
\* response.data.data.refresh_token, which may be missing
ServerRefreshTokens == {[refresh |-> 1], JsNull}
\* response.data.data.user, which may be missing
ServerUsers == {[id |-> 1], JsNull}
AuthOutcomes == {"ok", "refused", "thrown"}

\* JSON.stringify(user): undefined for an undefined user
JSONstringifyUser(user) == IF user = JsNull THEN JsNull ELSE [json |-> user]
\* the string localStorage.setItem stores for a value
StoredString(v) == IF v = JsNull THEN [text |-> "undefined"] ELSE v
\* whether JSON.parse(text) throws
JSONparseThrows(text) == text = [text |-> "undefined"]
\* JSON.parse(text) of a text that parses
JSONparseUser(text) == text.json

\* `Bearer ${token}`: null is written as the text null
Bearer(token) ==
    [scheme |-> "Bearer",
     credentials |-> IF token = JsNull THEN [text |-> "null"] ELSE token]

\* the request interceptor of ApiService
InterceptorHeader ==
    IF storage["authToken"] # JsNull THEN Bearer(storage["authToken"]) ELSE JsNull

\* the headers of the fetch calls of useWatchlists
WatchlistsFetchHeader == Bearer(storage["authToken"])

\* the headers of AuthService.updateProfile
UpdateProfileHeader == Bearer(storage["authToken"])

\* whether the expiry check of AuthService.isAuthenticated finds the token expired
TokenExpired ==
    /\ storage["authToken"] # JsNull
    /\ storage["authToken"].jwt
    /\ ~(storage["authToken"].exp * 1000 > now)

\* the stored token is present, well-formed and not expired
TokenValid ==
    /\ storage["authToken"] # JsNull
    /\ storage["authToken"].jwt
    /\ storage["authToken"].exp * 1000 > now

\* AuthService.isAuthenticated
isAuthenticated ==
    IF storage["authToken"] = JsNull THEN FALSE
    ELSE IF ~storage["authToken"].jwt THEN FALSE
    ELSE storage["authToken"].exp * 1000 > now

\* a request leaves the client with this Authorization header
Send(op, header) ==
    lastSent' = [op |-> op, authorization |-> header,
                 stored |-> storage["authToken"], removed |-> removed]

\* the keys removed from the storage, with the token remembered
RemoveItems(keys) ==
    /\ storage' = [k \in StorageKeys |-> IF k \in keys THEN JsNull ELSE storage[k]]
    /\ removed' = IF "authToken" \in keys /\ storage["authToken"] # JsNull
                  THEN storage["authToken"] ELSE removed

\* the mount effect of useAuth
AuthMount ==
    /\ mounted = "Auth"
    /\ authState.loading
    /\ IF storage["authToken"] # JsNull /\ storage["userData"] # JsNull
       THEN IF JSONparseThrows(storage["userData"])
            THEN /\ RemoveItems({"authToken", "userData"})
                 /\ authState' = [authState EXCEPT !.loading = FALSE]
            ELSE /\ authState' = [user |-> JSONparseUser(storage["userData"]),
                                  token |-> storage["authToken"],
                                  isAuthenticated |-> TRUE, loading |-> FALSE]
                 /\ UNCHANGED <<storage, removed>>
       ELSE /\ authState' = [authState EXCEPT !.loading = FALSE]
            /\ UNCHANGED <<storage, removed>>
    /\ UNCHANGED <<now, authCalls, lastSent, lastCheck>>
    /\ UNCHANGED refreshResult
    /\ UNCHANGED notAuthVars

\* the page is loaded again: useAuth starts from its initial state and the
\* requests awaited are dropped
Reload ==
    /\ mounted = "Auth"
    /\ ~authState.loading
    /\ authState' = InitialAuthState
    /\ authCalls' = {}
    /\ UNCHANGED <<storage, now, lastSent, lastCheck, removed>>
    /\ UNCHANGED refreshResult
    /\ UNCHANGED notAuthVars

\* useAuth.login and useAuth.register up to their await
HookAuthRequest ==
    /\ mounted = "Auth"
    /\ Cardinality(authCalls) < MaxAuthCalls
    /\ \E op \in {"login", "register"} :
          /\ authCalls' = authCalls \cup {[via |-> "useAuth", op |-> op]}
          /\ Send(op, JsNull)
    /\ UNCHANGED <<storage, now, authState, lastCheck, removed>>
    /\ UNCHANGED refreshResult
    /\ UNCHANGED notAuthVars

\* useAuth.login from the end of its request to its return
HookLoginReturn ==
    /\ mounted = "Auth"
    /\ [via |-> "useAuth", op |-> "login"] \in authCalls
    /\ authCalls' = authCalls \ {[via |-> "useAuth", op |-> "login"]}
    /\ \E outcome \in AuthOutcomes :
          IF outcome = "ok"
          THEN \E user \in ServerUsers : \E token \in ServerTokens :
                  /\ storage' = [storage EXCEPT
                                    !["authToken"] = token,
                                    !["userData"] = StoredString(JSONstringifyUser(user))]
                  /\ authState' = [user |-> user, token |-> token,
                                   isAuthenticated |-> TRUE, loading |-> FALSE]
                  /\ removed' = JsNull
          ELSE UNCHANGED <<storage, authState, removed>>
    /\ UNCHANGED <<now, lastSent, lastCheck>>
    /\ UNCHANGED refreshResult
    /\ UNCHANGED notAuthVars

\* useAuth.register from the end of its request to its return
HookRegisterReturn ==
    /\ mounted = "Auth"
    /\ [via |-> "useAuth", op |-> "register"] \in authCalls
    /\ authCalls' = authCalls \ {[via |-> "useAuth", op |-> "register"]}
    /\ UNCHANGED <<storage, now, authState, lastSent, lastCheck, removed>>
    /\ UNCHANGED refreshResult
    /\ UNCHANGED notAuthVars

\* useAuth.logout
HookLogout ==
    /\ mounted = "Auth"
    /\ RemoveItems({"authToken", "userData"})
    /\ authState' = [user |-> JsNull, token |-> JsNull, isAuthenticated |-> FALSE,
                     loading |-> FALSE]
    /\ UNCHANGED <<now, authCalls, lastSent, lastCheck>>
    /\ UNCHANGED refreshResult
    /\ UNCHANGED notAuthVars

\* AuthService.login, register and resetPassword up to their await
ServiceRequest ==
    /\ mounted = "Auth"
    /\ Cardinality(authCalls) < MaxAuthCalls
    /\ \E op \in {"login", "register", "resetPassword"} :
          /\ authCalls' = authCalls \cup {[via |-> "AuthService", op |-> op]}
          /\ Send(op, JsNull)
    /\ UNCHANGED <<storage, now, authState, lastCheck, removed>>
    /\ UNCHANGED refreshResult
    /\ UNCHANGED notAuthVars

\* AuthService.login and register from the end of their request to their return
ServiceLoginReturn ==
    /\ mounted = "Auth"
    /\ \E call \in authCalls :
          /\ call.via = "AuthService"
          /\ call.op \in {"login", "register"}
          /\ authCalls' = authCalls \ {call}
    /\ \E outcome \in AuthOutcomes :
          IF outcome = "ok"
          THEN \E user \in ServerUsers : \E token \in ServerTokens :
               \E refresh \in ServerRefreshTokens :
                  /\ storage' = [storage EXCEPT
                                    !["authToken"] = token,
                                    !["user"] = StoredString(JSONstringifyUser(user)),
                                    !["refreshToken"] =
                                        IF refresh # JsNull THEN refresh ELSE @]
                  /\ removed' = JsNull
          ELSE UNCHANGED <<storage, removed>>
    /\ UNCHANGED <<now, authState, lastSent, lastCheck>>
    /\ UNCHANGED refreshResult
    /\ UNCHANGED notAuthVars

\* AuthService.resetPassword from the end of its request to its return
ResetPasswordReturn ==
    /\ mounted = "Auth"
    /\ [via |-> "AuthService", op |-> "resetPassword"] \in authCalls
    /\ authCalls' = authCalls \ {[via |-> "AuthService", op |-> "resetPassword"]}
    /\ UNCHANGED <<storage, now, authState, lastSent, lastCheck, removed>>
    /\ UNCHANGED refreshResult
    /\ UNCHANGED notAuthVars

\* AuthService.logout
ServiceLogout ==
    /\ mounted = "Auth"
    /\ RemoveItems({"authToken", "refreshToken", "user"})
    /\ UNCHANGED <<now, authState, authCalls, lastSent, lastCheck>>
    /\ UNCHANGED refreshResult
    /\ UNCHANGED notAuthVars

\* AuthService.refreshToken when no refresh token is stored
RefreshWithoutToken ==
    /\ mounted = "Auth"
    /\ storage["refreshToken"] = JsNull
    /\ refreshResult' = [requested |-> FALSE, returned |-> FALSE]
    /\ UNCHANGED <<storage, now, authState, authCalls, lastSent, lastCheck, removed>>
    /\ UNCHANGED notAuthVars

\* AuthService.refreshToken up to its await
RefreshRequest ==
    /\ mounted = "Auth"
    /\ Cardinality(authCalls) < MaxAuthCalls
    /\ storage["refreshToken"] # JsNull
    /\ authCalls' = authCalls \cup {[via |-> "AuthService", op |-> "refresh"]}
    /\ Send("refresh", JsNull)
    /\ UNCHANGED <<storage, now, authState, lastCheck, removed, refreshResult>>
    /\ UNCHANGED notAuthVars

\* AuthService.refreshToken from the end of its request to its return
RefreshReturn ==
    /\ mounted = "Auth"
    /\ [via |-> "AuthService", op |-> "refresh"] \in authCalls
    /\ authCalls' = authCalls \ {[via |-> "AuthService", op |-> "refresh"]}
    /\ \E outcome \in AuthOutcomes :
          CASE outcome = "ok" ->
                 \E token \in ServerTokens : \E refresh \in ServerRefreshTokens :
                    /\ storage' = [storage EXCEPT
                                      !["authToken"] = token,
                                      !["refreshToken"] =
                                          IF refresh # JsNull THEN refresh ELSE @]
                    /\ removed' = JsNull
                    /\ refreshResult' = [requested |-> TRUE, returned |-> TRUE]
            [] outcome = "refused" ->
                 /\ UNCHANGED <<storage, removed>>
                 /\ refreshResult' = [requested |-> TRUE, returned |-> FALSE]
            [] outcome = "thrown" ->
                 /\ RemoveItems({"authToken", "refreshToken", "user"})
                 /\ refreshResult' = [requested |-> TRUE, returned |-> FALSE]
    /\ UNCHANGED <<now, authState, lastSent, lastCheck>>
    /\ UNCHANGED notAuthVars

\* AuthService.updateProfile up to its await
UpdateProfileRequest ==
    /\ mounted = "Auth"
    /\ Cardinality(authCalls) < MaxAuthCalls
    /\ authCalls' = authCalls \cup {[via |-> "AuthService", op |-> "updateProfile"]}
    /\ Send("updateProfile", UpdateProfileHeader)
    /\ UNCHANGED <<storage, now, authState, lastCheck, removed>>
    /\ UNCHANGED refreshResult
    /\ UNCHANGED notAuthVars

\* AuthService.updateProfile from the end of its request to its return
UpdateProfileReturn ==
    /\ mounted = "Auth"
    /\ [via |-> "AuthService", op |-> "updateProfile"] \in authCalls
    /\ authCalls' = authCalls \ {[via |-> "AuthService", op |-> "updateProfile"]}
    /\ \E outcome \in AuthOutcomes :
          IF outcome = "ok"
          THEN \E user \in ServerUsers :
                  storage' = [storage EXCEPT
                                 !["user"] = StoredString(JSONstringifyUser(user))]
          ELSE UNCHANGED storage
    /\ UNCHANGED <<now, authState, lastSent, lastCheck, removed>>
    /\ UNCHANGED refreshResult
    /\ UNCHANGED notAuthVars

\* a request of ApiService leaves through the interceptor
ApiServiceRequest ==
    /\ mounted = "Auth"
    /\ \E op \in {"getWatchlists"} : Send(op, InterceptorHeader)
    /\ UNCHANGED <<storage, now, authState, authCalls, lastCheck, removed>>
    /\ UNCHANGED refreshResult
    /\ UNCHANGED notAuthVars

\* createWatchlist, updateWatchlist or deleteWatchlist of useWatchlists sends its
\* request
WatchlistsFetchRequest ==
    /\ mounted = "Auth"
    /\ \E op \in {"createWatchlist", "updateWatchlist", "deleteWatchlist"} :
          Send(op, WatchlistsFetchHeader)
    /\ UNCHANGED <<storage, now, authState, authCalls, lastCheck, removed>>
    /\ UNCHANGED refreshResult
    /\ UNCHANGED notAuthVars

\* a caller asks AuthService.isAuthenticated
CheckAuthenticated ==
    /\ mounted = "Auth"
    /\ lastCheck' = [result |-> isAuthenticated, expired |-> TokenExpired,
                     valid |-> TokenValid]
    /\ UNCHANGED <<storage, now, authState, authCalls, lastSent, removed>>
    /\ UNCHANGED refreshResult
    /\ UNCHANGED notAuthVars

\* time passes
Tick ==
    /\ mounted = "Auth"
    /\ now < MaxNow
    /\ now' = now + 1000
    /\ UNCHANGED <<storage, authState, authCalls, lastSent, lastCheck, removed>>
    /\ UNCHANGED refreshResult
    /\ UNCHANGED notAuthVars

InitAuth ==
    /\ AnalyzerIdle
    /\ mounted = "Auth"
    /\ ComponentsIdle

NextAuth ==
    \/ AuthMount \/ Reload \/ HookAuthRequest \/ HookLoginReturn \/ HookRegisterReturn
    \/ HookLogout \/ ServiceRequest \/ ServiceLoginReturn \/ ResetPasswordReturn
    \/ ServiceLogout \/ RefreshWithoutToken \/ RefreshRequest \/ RefreshReturn \/ UpdateProfileRequest
    \/ UpdateProfileReturn \/ ApiServiceRequest \/ WatchlistsFetchRequest
    \/ CheckAuthenticated \/ Tick

SpecAuth == InitAuth /\ [][NextAuth]_vars

(***************************************************************************)
(* C19.  Every request the client sends to the API carries the header      *)
(* Authorization: Bearer <token>, where <token> is the token held in       *)
(* client storage at the moment the request is sent; after logout no later *)
(* request carries the removed token.                                      *)
(***************************************************************************)
\* the last request sent carries the token that was stored when it was sent
CarriesStoredToken ==
    /\ lastSent.authorization # JsNull
    /\ lastSent.stored # JsNull
    /\ lastSent.authorization.credentials = lastSent.stored

\* the last request sent does not carry the token a logout before it removed
OmitsRemovedToken ==
    (lastSent.removed # JsNull /\ lastSent.authorization # JsNull)
        => lastSent.authorization.credentials # lastSent.removed

C19_BearerOnEveryRequest ==
    lastSent # JsNull => (CarriesStoredToken /\ OmitsRemovedToken)

\* the second half of C19 alone
RemovedTokenNeverSent == lastSent # JsNull => OmitsRemovedToken

\* every Authorization header sent is made from the value stored at that moment
HeaderFromStorage ==
    (lastSent # JsNull /\ lastSent.authorization # JsNull)
        => lastSent.authorization = Bearer(lastSent.stored)

(***************************************************************************)
(* C20.  An expired or missing token is treated as not authenticated and   *)
(* the stored credentials are cleared: no reachable state reports the user *)
(* as authenticated while the stored token is absent, malformed or has an  *)
(* expiry at or before the current time, and once the expiry check has     *)
(* found the token expired the token, refresh token and user record are no *)
(* longer in client storage.                                               *)
(***************************************************************************)
\* the token, the refresh token and the user record are not in the storage
CredentialsCleared ==
    /\ storage["authToken"] = JsNull
    /\ storage["refreshToken"] = JsNull
    /\ storage["user"] = JsNull
    /\ storage["userData"] = JsNull

\* a step in which the expiry check finds the token expired leaves no credentials
C20_ExpiryStep ==
    (lastCheck' # lastCheck /\ lastCheck'.expired) => CredentialsCleared'

C20_ExpiredMeansLoggedOut ==
    /\ [](authState.isAuthenticated => TokenValid)
    /\ [](lastCheck # JsNull => (lastCheck.result => lastCheck.valid))
    /\ [][C20_ExpiryStep]_vars

(***************************************************************************)
(* C21.  After logout, no auth token, refresh token or user record remains *)
(* in client storage, whichever login path stored them (AuthService.login  *)
(* or register, or useAuth.login) and whichever logout is called           *)
(* (AuthService.logout or useAuth.logout); the state of useAuth after its  *)
(* logout has user null, token null and isAuthenticated false.             *)
(***************************************************************************)
\* the state useAuth.logout is to leave
LoggedOutState ==
    /\ authState.user = JsNull
    /\ authState.token = JsNull
    /\ ~authState.isAuthenticated

\* a step of either logout leaves no credentials in the storage
C21_LogoutStep ==
    /\ (HookLogout \/ ServiceLogout) => CredentialsCleared'
    /\ HookLogout => LoggedOutState'

C21_LogoutClearsStorage == [][C21_LogoutStep]_vars

\* the part of C21 about the state of useAuth alone
HookLogoutResetsState == [][HookLogout => LoggedOutState']_vars

\* each logout removes the token
LogoutRemovesToken ==
    [][(HookLogout \/ ServiceLogout) => storage'["authToken"] = JsNull]_vars

(***************************************************************************)
(* C28.  AuthService.refreshToken sends no request and changes no storage  *)
(* when no refresh token is stored; when the refresh response has          *)
(* success: true it replaces the stored token (and the refresh token when  *)
(* a new one is given) and returns true; in every case where it returns    *)
(* false after a request, the stale token, refresh token and user record   *)
(* have been removed from storage.                                         *)
(***************************************************************************)
\* refreshToken without a stored refresh token: no request, the storage as it was
RefreshWithoutTokenStep ==
    RefreshWithoutToken =>
        /\ lastSent' = lastSent
        /\ storage' = storage
        /\ ~refreshResult'.returned

\* the answer success: true: a token of the server is stored and true returned
RefreshAcceptedStep ==
    (RefreshReturn /\ refreshResult'.returned) =>
        /\ storage'["authToken"] \in ServerTokens
        /\ storage'["refreshToken"] \in ServerRefreshTokens \cup {storage["refreshToken"]}

\* false returned after a request: the credentials are gone
RefreshFailedStep ==
    (RefreshReturn /\ ~refreshResult'.returned) => CredentialsCleared'

C28_RefreshToken ==
    [][RefreshWithoutTokenStep /\ RefreshAcceptedStep /\ RefreshFailedStep]_vars

\* the parts of C28 about the call without a refresh token and the accepted call
RefreshOtherwiseRight == [][RefreshWithoutTokenStep /\ RefreshAcceptedStep]_vars

\* the failed request alone, for the keys of AuthService
RefreshThrownClears ==
    [][(RefreshReturn /\ ~refreshResult'.returned /\ storage' # storage) =>
          (storage'["authToken"] = JsNull /\ storage'["refreshToken"] = JsNull
           /\ storage'["user"] = JsNull)]_vars

(***************************************************************************)
(* The TrendSearch form taken alone (components/trends/TrendSearch.tsx),   *)
(* with the text as the characters typed, and Search.handleSearch as its   *)
(* onSearch.  No element of the form calls addKeyword, so the list of      *)
(* keyword pills stays as useState([]) made it.                            *)
(***************************************************************************)
\* the longest text typed
MaxQueryLen == 3
\* the characters typed
Chars == {"a", " ", ","}
QueryTexts == UNION {[1..n -> Chars] : n \in 0..MaxQueryLen}

\* const [keywords, setKeywords] = useState<string[]>([])
pills == <<>>

\* the values of timeframeOptions
timeframeOptions ==
    {"now 1-H", "now 4-H", "now 1-d", "now 7-d", "today 1-m", "today 3-m", "today 12-m",
     "today 5-y"}

\* values of geoOptions: the United States, worldwide, the United Kingdom
geoOptions == {"US", "", "GB"}

RECURSIVE TrimStart(_)
TrimStart(s) ==
    IF s # <<>> /\ Head(s) = " " THEN TrimStart(Tail(s)) ELSE s

RECURSIVE TrimEnd(_)
TrimEnd(s) ==
    IF s # <<>> /\ s[Len(s)] = " " THEN TrimEnd(SubSeq(s, 1, Len(s) - 1)) ELSE s

\* String.prototype.trim
Trim(s) == TrimEnd(TrimStart(s))

\* s.split(','): the pieces between the commas, at least one
RECURSIVE SplitFrom(_, _, _)
SplitFrom(s, piece, pieces) ==
    IF s = <<>> THEN Append(pieces, piece)
    ELSE IF Head(s) = "," THEN SplitFrom(Tail(s), <<>>, Append(pieces, piece))
    ELSE SplitFrom(Tail(s), Append(piece, Head(s)), pieces)

Split(s) == SplitFrom(s, <<>>, <<>>)

\* list.filter(k => k)
RECURSIVE FilterNonEmpty(_)
FilterNonEmpty(list) ==
    IF list = <<>> THEN <<>>
    ELSE IF Head(list) = <<>> THEN FilterNonEmpty(Tail(list))
    ELSE <<Head(list)>> \o FilterNonEmpty(Tail(list))

\* Array.from(new Set(list)): the first occurrence of each element, in order
RECURSIVE UniqueFrom(_, _)
UniqueFrom(list, seen) ==
    IF list = <<>> THEN seen
    ELSE IF \E i \in 1..Len(seen) : seen[i] = Head(list)
    THEN UniqueFrom(Tail(list), seen)
    ELSE UniqueFrom(Tail(list), Append(seen, Head(list)))

\* uniqueKeywords of handleSubmit
uniqueKeywords(text) ==
    LET searchKeywords ==
            IF Trim(text) # <<>>
            THEN pills \o
                 FilterNonEmpty([i \in 1..Len(Split(text)) |-> Trim(Split(text)[i])])
            ELSE pills
    IN  UniqueFrom(searchKeywords, <<>>)

\* the body ApiService.searchTrends posts to /trends/search
SearchBody(keywordList, opts) ==
    [keywords |-> keywordList,
     timeframe |-> Or(opts.timeframe, "today 3-m"),
     geo |-> Or(opts.geo, "US")]

\* the user types a text into the empty input, or clears the input
TypeText ==
    /\ mounted = "TrendSearch"
    /\ \E text \in QueryTexts :
          /\ text # typed
          /\ typed = <<>> \/ text = <<>>
          /\ typed' = text
    /\ UNCHANGED <<options, searched>>
    /\ UNCHANGED notTsVars

\* the user selects a time range
SelectTimeframe ==
    /\ mounted = "TrendSearch"
    /\ \E t \in timeframeOptions :
          /\ t # options.timeframe
          /\ options' = [options EXCEPT !.timeframe = t]
    /\ UNCHANGED <<typed, searched>>
    /\ UNCHANGED notTsVars

\* the user selects a region
SelectGeo ==
    /\ mounted = "TrendSearch"
    /\ \E g \in geoOptions :
          /\ g # options.geo
          /\ options' = [options EXCEPT !.geo = g]
    /\ UNCHANGED <<typed, searched>>
    /\ UNCHANGED notTsVars

\* TrendSearch.handleSubmit, which the Enter key calls whether or not the button
\* is disabled, with Search.handleSearch up to its request
HandleSubmit ==
    /\ mounted = "TrendSearch"
    /\ ~(Trim(typed) = <<>> /\ Len(pills) = 0)
    /\ searched' = [keywords |-> uniqueKeywords(typed), options |-> options,
                   body |-> SearchBody(uniqueKeywords(typed), options)]
    /\ typed' = <<>>
    /\ UNCHANGED options
    /\ UNCHANGED notTsVars

InitTrendSearch ==
    /\ AnalyzerIdle
    /\ mounted = "TrendSearch"
    /\ ComponentsIdle

NextTrendSearch == TypeText \/ SelectTimeframe \/ SelectGeo \/ HandleSubmit

SpecTrendSearch == InitTrendSearch /\ [][NextTrendSearch]_vars

(***************************************************************************)
(* C22.  When the user selects the worldwide region (geo is the empty      *)
(* string), the body of the POST /trends/search request carries geo equal  *)
(* to the empty string; in general the geo sent equals the geo the user    *)
(* selected.                                                               *)
(***************************************************************************)
C22_GeoSentAsSelected ==
    searched # JsNull => searched.body.geo = searched.options.geo

\* a region other than worldwide is sent as it was selected
NamedGeoSentAsSelected ==
    (searched # JsNull /\ searched.options.geo # "")
        => searched.body.geo = searched.options.geo

(***************************************************************************)
(* C27.  TrendSearch never calls onSearch with an empty keyword list: for  *)
(* every query text and every pill list, whenever handleSubmit calls       *)
(* onSearch the keyword list passed is non-empty, contains no duplicate,   *)
(* and every keyword taken from the query text is trimmed and non-empty.   *)
(***************************************************************************)
NoDuplicate(list) == \A i, j \in 1..Len(list) : list[i] = list[j] => i = j

TrimmedNonEmpty(k) == k # <<>> /\ Head(k) # " " /\ k[Len(k)] # " "

C27_KeywordsNonEmpty ==
    searched # JsNull =>
        /\ searched.keywords # <<>>
        /\ NoDuplicate(searched.keywords)
        /\ \A i \in 1..Len(searched.keywords) : TrimmedNonEmpty(searched.keywords[i])

\* C27 without its first part: what is passed has no duplicate and only trimmed,
\* non-empty keywords
KeywordsClean ==
    searched # JsNull =>
        /\ NoDuplicate(searched.keywords)
        /\ \A i \in 1..Len(searched.keywords) : TrimmedNonEmpty(searched.keywords[i])

(***************************************************************************)
(* The two places a timeframe comes from: the search form and a stored     *)
(* analysis shown by the analysis detail page.                             *)
(***************************************************************************)
InitBodies ==
    /\ AnalyzerIdle
    /\ mounted \in {"TrendSearch", "AnalysisDetail"}
    /\ ComponentsIdle

NextBodies == NextTrendSearch \/ NextDetail

SpecBodies == InitBodies /\ [][NextBodies]_vars

(***************************************************************************)
(* C23.  Every timeframe value sent in the body of a /trends/search or     *)
(* /trends/insights request is a member of the fixed enumerated set        *)
(* {now 1-H, now 4-H, now 1-d, today 1-m, today 3-m, today 12-m,           *)
(* today 5-y}, whatever the user selects in the search form and whatever   *)
(* timeframe a stored analysis carries.                                    *)
(***************************************************************************)
C23_TimeframesEnumerated ==
    /\ searched # JsNull => searched.body.timeframe \in allowedTimeframes
    /\ \A i \in 1..Len(detailSent) : detailSent[i].timeframe \in allowedTimeframes

\* the /trends/search requests of the analysis detail page alone
DetailSearchTimeframes ==
    \A i \in 1..Len(detailSent) :
        detailSent[i].op = "searchTrends" => detailSent[i].timeframe \in allowedTimeframes

\* a timeframe of the enumerated set is sent as it was selected or stored
EnumeratedTimeframeKept ==
    (searched # JsNull /\ searched.options.timeframe \in allowedTimeframes)
        => searched.body.timeframe = searched.options.timeframe

(***************************************************************************)
(* The Watchlists page and the analysis of a watchlist                     *)
(* (pages/Watchlists.tsx, handleAnalyzeWatchlist and the view selection).  *)
(***************************************************************************)
\* the page renders WatchlistAnalysis: analysisData is set and analyzingWatchlist is
\* the id of a watchlist of the list
ReportShown ==
    /\ ~wlLoading
    /\ analysisData # JsNull
    /\ \E i \in 1..Len(pageWatchlists) : pageWatchlists[i].id = analyzingWatchlist

\* the page renders the cards of the watchlists
CardsShown == ~wlLoading /\ ~ReportShown /\ pageWatchlists # <<>>

\* the Analyze button of a card: handleAnalyzeWatchlist up to its await
AnalyzeWatchlist ==
    /\ mounted = "Watchlists"
    /\ CardsShown
    /\ triggers < MaxTriggers
    /\ \E i \in 1..Len(pageWatchlists) :
          /\ analyzingWatchlist' = pageWatchlists[i].id
          /\ wlCalls' = wlCalls \cup
                 {[id |-> wlIssued + 1, op |-> "analyzeWatchlist",
                   action |-> triggers + 1, from |-> pageWatchlists[i].id]}
    /\ wlIssued' = wlIssued + 1
    /\ triggers' = triggers + 1
    /\ analysed' = 0
    /\ UNCHANGED <<showCreateForm, pageWatchlists, wlLoading, wlError, wlSubmitted,
                   analysisData>>
    /\ UNCHANGED notWlVars

\* handleAnalyzeWatchlist from the end of its request to its second await or its
\* return
AnalyzeReturn ==
    /\ mounted = "Watchlists"
    /\ \E call \in wlCalls : \E outcome \in Outcomes :
          /\ call.op = "analyzeWatchlist"
          /\ IF outcome.kind = "ok"
             THEN /\ analysisData' = [report |-> call.from, response |-> call.id]
                  /\ FetchWatchlists(call.action, call.from, wlCalls \ {call})
                  /\ UNCHANGED <<analyzingWatchlist>>
             ELSE /\ wlCalls' = wlCalls \ {call}
                  /\ wlError' = IF outcome.kind = "refused"
                                THEN Or(outcome.error, "Analysis failed")
                                ELSE "Analysis failed. Please try again."
                  /\ analyzingWatchlist' = 0
                  /\ UNCHANGED <<analysisData, wlLoading, wlIssued>>
    /\ UNCHANGED <<showCreateForm, pageWatchlists, wlSubmitted, triggers, analysed>>
    /\ UNCHANGED notWlVars

\* onClose of WatchlistAnalysis
CloseAnalysis ==
    /\ mounted = "Watchlists"
    /\ ReportShown
    /\ analysisData' = JsNull
    /\ analysed' = 0
    /\ UNCHANGED <<showCreateForm, pageWatchlists, wlLoading, wlError, wlCalls, wlIssued,
                   wlSubmitted, triggers, analyzingWatchlist>>
    /\ UNCHANGED notWlVars

InitWatchlistsPage ==
    /\ AnalyzerIdle
    /\ mounted = "Watchlists"
    /\ ComponentsIdle

NextWatchlistsPage ==
    \/ WatchlistsMount \/ WatchlistsReturn \/ AnalyzeWatchlist \/ AnalyzeReturn
    \/ CloseAnalysis \/ OpenCreateForm \/ SubmitWatchlistForm \/ CancelWatchlistForm

SpecWatchlistsPage == InitWatchlistsPage /\ [][NextWatchlistsPage]_vars

(***************************************************************************)
(* C24.  On the Watchlists page, after an analyze request for a watchlist  *)
(* succeeds, the analysis report of that watchlist is displayed and stays  *)
(* displayed until the user closes it: in every state reached after        *)
(* handleAnalyzeWatchlist has completed with analysisData set,             *)
(* analyzingWatchlist still identifies the analysed watchlist, so the      *)
(* report view is selected.                                                *)
(***************************************************************************)
C24_ReportStaysDisplayed ==
    analysed # 0 => (analyzingWatchlist = analysed /\ (~wlLoading => ReportShown))

\* the report of a completed analysis is not on screen
ReportOfCompletedHidden ==
    (analysed # 0 /\ wlCalls = {}) => ~ReportShown

(***************************************************************************)
(* useWatchlists and the server behind it.  The server holds the           *)
(* watchlists; every operation of the hook sends one request, the server   *)
(* answers it at some moment, and the answer reaches the hook at a later   *)
(* one, so that the answers of two calls can arrive in either order.  The  *)
(* hook keeps its own copy of the list in `watchlists`.                    *)
(***************************************************************************)
\* the calls of useWatchlists in one run
MaxWhCalls == 3

\* the ids the server gives, which are also the ids a caller can name
WatchlistIds == 1..MaxWhCalls

\* the operations of useWatchlists that name a watchlist by its id
TargetedOps == {"updateWatchlist", "deleteWatchlist", "analyzeWatchlist"}

\* every operation useWatchlists returns, clearError aside
WatchlistOps == {"fetchWatchlists", "createWatchlist"} \cup TargetedOps

\* the watchlist the server makes for POST /watchlists
NewWatchlist(n) == [id |-> n, rev |-> 0, last_analyzed |-> 0]


\* arr.filter(w => w.id !== id)
FilterOutId(arr, n) ==
    LET Keep(w) == w.id # n
    IN  SelectSeq(arr, Keep)

\* { ...w, ...d }: the fields of d over those of w
Spread(w, d) ==
    [f \in DOMAIN w \cup DOMAIN d |-> IF f \in DOMAIN d THEN d[f] ELSE w[f]]

\* arr.map(w => w.id === id ? { ...w, ...d } : w)
MapById(arr, n, d) ==
    [i \in 1..Len(arr) |-> IF arr[i].id = n THEN Spread(arr[i], d) ELSE arr[i]]

\* the entry with an id, as the server holds it
HasId(arr, n) == \E i \in 1..Len(arr) : arr[i].id = n

\* setLoading(true); setError(null); then the request, up to the await
WhCall(op, target) ==
    /\ mounted = "useWatchlists"
    /\ whIssued < MaxWhCalls
    /\ whIssued' = whIssued + 1
    /\ hookLoading' = [hookLoading EXCEPT !["useWatchlists"] = TRUE]
    /\ hookError' = [hookError EXCEPT !["useWatchlists"] = Null]
    /\ whCalls' = whCalls \cup {[id |-> whIssued + 1, op |-> op, target |-> target,
                                 stage |-> "sent", data |-> JsNull]}
    /\ UNCHANGED <<serverList, serverNext, whDone, watchlists, trends, analyticsData,
                   hookCalls, hookIssued, hookArrived, triggers, notWhVars>>

\* The server handles a request and answers success: true.  GET answers with
\* the list as it is then; POST adds a watchlist and answers with it; PUT, DELETE
\* and analyze act on the watchlist with the id, which the server must hold.
ServerAnswer(call) ==
    /\ call \in whCalls
    /\ call.stage = "sent"
    /\ call.op \in TargetedOps => HasId(serverList, call.target)
    /\ LET revised == [i \in 1..Len(serverList) |->
                          IF serverList[i].id = call.target
                          THEN [serverList[i] EXCEPT !.rev = @ + 1]
                          ELSE serverList[i]]
           after == CASE call.op = "fetchWatchlists" -> serverList
                      [] call.op = "createWatchlist" ->
                            Append(serverList, NewWatchlist(serverNext))
                      [] call.op = "updateWatchlist" ->
                            revised
                      [] call.op = "deleteWatchlist" ->
                            FilterOutId(serverList, call.target)
                      [] call.op = "analyzeWatchlist" ->
                            MapById(serverList, call.target, [last_analyzed |-> 1])
           answer == CASE call.op = "fetchWatchlists" -> serverList
                       [] call.op = "createWatchlist" -> NewWatchlist(serverNext)
                       [] call.op = "updateWatchlist" ->
                             (CHOOSE w \in {after[i] : i \in 1..Len(after)} :
                                  w.id = call.target)
                       [] OTHER -> [success |-> TRUE]
       IN  /\ serverList' = after
           /\ serverNext' = IF call.op = "createWatchlist" THEN serverNext + 1
                            ELSE serverNext
           /\ whCalls' = (whCalls \ {call})
                         \cup {[call EXCEPT !.stage = "answered", !.data = answer]}
    /\ UNCHANGED <<whIssued, whDone, hookVars, triggers, notWhVars>>

\* a delete that takes the watchlist out of the list whether or not it succeeded
ListAfter_DropsOnFailure(call, outcome) ==
    IF call.op = "deleteWatchlist" THEN FilterOutId(watchlists, call.target)
    ELSE IF outcome.kind # "ok" THEN watchlists
    ELSE CASE call.op = "fetchWatchlists" -> call.data
           [] call.op = "createWatchlist" -> Append(watchlists, call.data)
           [] call.op = "updateWatchlist" ->
                 MapById(watchlists, call.target, call.data)
           [] call.op = "analyzeWatchlist" ->
                 MapById(watchlists, call.target, [last_analyzed |-> 1])

\* The list of the hook after an operation: the setWatchlists of its success
\* branch, and the list as it was when the operation ends in its catch block.
ListAfter(call, outcome) ==
    IF outcome.kind # "ok" THEN watchlists
    ELSE CASE call.op = "fetchWatchlists" -> call.data
           [] call.op = "createWatchlist" -> Append(watchlists, call.data)
           [] call.op = "updateWatchlist" ->
                 MapById(watchlists, call.target, call.data)
           [] call.op = "deleteWatchlist" -> FilterOutId(watchlists, call.target)
           [] call.op = "analyzeWatchlist" ->
                 MapById(watchlists, call.target, [last_analyzed |-> 1])

\* The rest of an operation of useWatchlists, once its request has ended: with
\* the answer of the server, with success: false, or with a failure.  A request
\* that ends otherwise than in success: true has changed nothing on the server.
WhReturn(call, outcome) ==
    /\ call \in whCalls
    /\ outcome \in Outcomes
    /\ call.stage = (IF outcome.kind = "ok" THEN "answered" ELSE "sent")
    /\ watchlists' = ListAfter(call, outcome)
    /\ hookError' = IF Caught(call.op, outcome)
                    THEN [hookError EXCEPT
                              !["useWatchlists"] = CaughtMessage(call.op, outcome)]
                    ELSE hookError
    /\ hookLoading' = [hookLoading EXCEPT !["useWatchlists"] = FALSE]
    /\ whCalls' = whCalls \ {call}
    /\ whDone' = [id |-> call.id, op |-> call.op, target |-> call.target,
                  kind |-> outcome.kind, rejected |-> Caught(call.op, outcome)]
    /\ UNCHANGED <<serverList, serverNext, whIssued, trends, analyticsData, hookCalls,
                   hookIssued, hookArrived, triggers, notWhVars>>

\* clearError of useWatchlists
WhClearError ==
    /\ mounted = "useWatchlists"
    /\ hookError["useWatchlists"] # Null
    /\ hookError' = [hookError EXCEPT !["useWatchlists"] = Null]
    /\ UNCHANGED <<whVars, hookLoading, trends, watchlists, analyticsData, hookCalls,
                   hookIssued, hookArrived, triggers, notWhVars>>

InitWatchlistsHook ==
    /\ AnalyzerIdle
    /\ ComponentsIdle
    /\ mounted = "useWatchlists"
    /\ triggers = 0

NextWatchlistsHook ==
    \/ \E op \in {"fetchWatchlists", "createWatchlist"} : WhCall(op, 0)
    \/ \E op \in TargetedOps, n \in WatchlistIds : WhCall(op, n)
    \/ \E call \in whCalls : ServerAnswer(call)
    \/ \E call \in whCalls, outcome \in Outcomes : WhReturn(call, outcome)
    \/ WhClearError

SpecWatchlistsHook == InitWatchlistsHook /\ [][NextWatchlistsHook]_vars

\* the watchlists of a list, whatever their order
EntriesOf(arr) == {arr[i] : i \in 1..Len(arr)}

\* C25: once every outstanding request of useWatchlists has completed, the list
\* of the hook holds the watchlists the server holds: no create, update or delete
\* that succeeded is undone in the hook by the answer of a fetchWatchlists that
\* was sent before it and arrived after it.
C25_ListAgreesWithServer ==
    whCalls = {} => EntriesOf(watchlists) = EntriesOf(serverList)

\* a call made alone, with none beside it, leaves the hook's list the server's list
SingleCallAgrees ==
    (whCalls = {} /\ whIssued = 1) => EntriesOf(watchlists) = EntriesOf(serverList)

\* the step in which the call whose end whDone' records returns
WhReturned == whDone' # whDone

\* what a failed create, update, delete or analyze leaves behind
FailedLeaves ==
    /\ watchlists' = watchlists
    /\ hookError'["useWatchlists"] \notin {Null, ""}
    /\ whDone'.rejected
    /\ ~hookLoading'["useWatchlists"]

\* what a create, update or delete that succeeded does to the list of the hook
SucceededDoes ==
    CASE whDone'.op = "deleteWatchlist" ->
            /\ ~HasId(watchlists', whDone'.target)
            /\ \E keep \in SUBSET (1..Len(watchlists)) :
                  /\ \A i \in 1..Len(watchlists) :
                        i \in keep <=> watchlists[i].id # whDone'.target
                  /\ Len(watchlists') = Cardinality(keep)
                  /\ \A i \in keep :
                        watchlists'[Cardinality({j \in keep : j <= i})] = watchlists[i]
      [] whDone'.op = "createWatchlist" ->
            /\ Len(watchlists') = Len(watchlists) + 1
            /\ SubSeq(watchlists', 1, Len(watchlists)) = watchlists
      [] whDone'.op = "updateWatchlist" ->
            /\ Len(watchlists') = Len(watchlists)
            /\ \A i \in 1..Len(watchlists) :
                  watchlists[i].id # whDone'.target => watchlists'[i] = watchlists[i]
      [] OTHER -> TRUE

C26_Step ==
    (WhReturned /\ whDone'.op # "fetchWatchlists")
        => IF whDone'.kind = "ok" THEN SucceededDoes /\ ~whDone'.rejected
           ELSE FailedLeaves

\* C26: in useWatchlists a create, update, delete or analyze that fails, by a
\* network failure or by success: false, leaves the list unchanged, sets error to
\* a non-empty message, rejects its promise and ends with loading false; a delete
\* that succeeds removes exactly the entries with the given id, a create that
\* succeeds appends exactly one entry, and an update that succeeds changes only
\* the entry with the given id.
C26_FailureLeavesList == [][C26_Step]_vars

\* a delete has failed in a hook that holds a watchlist, and left an error
C26_Witness ==
    /\ whDone # JsNull
    /\ whDone.op = "deleteWatchlist"
    /\ whDone.kind # "ok"
    /\ whDone.rejected
    /\ watchlists # <<>>
    /\ hookError["useWatchlists"] = "Failed to delete watchlist"

\* a delete has succeeded in a hook that held another watchlist too
DeleteSucceeded ==
    /\ whDone # JsNull
    /\ whDone.op = "deleteWatchlist"
    /\ whDone.kind = "ok"
    /\ watchlists # <<>>

\* an update has succeeded in a hook that holds another watchlist too
UpdateSucceeded ==
    /\ whDone # JsNull
    /\ whDone.op = "updateWatchlist"
    /\ whDone.kind = "ok"
    /\ Len(watchlists) = 2
    /\ \E i \in 1..2 : watchlists[i].rev = 1

(***************************************************************************)
(* TrendsService.compareTrends (src/frontend/src/services/trends.tsx): it  *)
(* searches the trends of the keywords and adds to the answer the keyword  *)
(* that performs best.                                                     *)
(***************************************************************************)
\* the trends in one answer
MaxCmpTrends == 3

CmpKeywords == {"a", "b"}

\* search_volume of a trend: observations between 0 and 100
CmpVolumes == {<<>>, <<0>>, <<1, 2>>, <<3>>, <<2, 2>>}

CmpTrends == [keyword : CmpKeywords, search_volume : CmpVolumes]

TrendLists == UNION {[1..k -> CmpTrends] : k \in 0..MaxCmpTrends}

\* What searchTrends resolves to: success with the trends, or with no trends
\* field in the data, or with no data; success: false; and it can reject.
CmpResponses ==
    {[success |-> TRUE, data |-> [trends |-> ts]] : ts \in TrendLists}
    \cup {[success |-> TRUE, data |-> [insights |-> <<>>]],
          [success |-> TRUE],
          [success |-> FALSE, error |-> "bad request"],
          [thrown |-> ""], [thrown |-> "Network Error"]}

\* trend.search_volume.reduce((sum, val) => sum + val, 0)
RECURSIVE totalVolumeFrom(_, _, _)
totalVolumeFrom(volume, i, sum) ==
    IF i > Len(volume) THEN sum ELSE totalVolumeFrom(volume, i + 1, sum + volume[i])

\* the test of the loop with a total that equals the maximum passing it too
Exceeds_OrEquals(totalVolume, maxVolume) == totalVolume >= maxVolume

\* if (totalVolume > maxVolume)
Exceeds(totalVolume, maxVolume) == totalVolume > maxVolume

\* trends.forEach(trend => { ... })
RECURSIVE BestFrom(_, _, _, _)
BestFrom(ts, i, bestKeyword, maxVolume) ==
    IF i > Len(ts) THEN [keyword |-> bestKeyword, metric |-> "total_volume",
                         value |-> maxVolume]
    ELSE LET totalVolume == totalVolumeFrom(ts[i].search_volume, 1, 0)
         IN  IF Exceeds(totalVolume, maxVolume)
             THEN BestFrom(ts, i + 1, ts[i].keyword, totalVolume)
             ELSE BestFrom(ts, i + 1, bestKeyword, maxVolume)

findBestPerforming(ts) ==
    IF Len(ts) = 0 THEN [keyword |-> "", metric |-> "volume", value |-> 0]
    ELSE BestFrom(ts, 1, ts[1].keyword, 0)

\* response.data.trends || []
TrendsOr(response) ==
    IF "trends" \in DOMAIN response.data THEN response.data.trends ELSE <<>>

\* what compareTrends resolves to for an answer of searchTrends
compareTrends(keywords, response) ==
    IF "thrown" \in DOMAIN response
    THEN [success |-> FALSE, error |-> Or(response.thrown, "Failed to compare trends")]
    ELSE IF response.success /\ "data" \in DOMAIN response
    THEN [success |-> TRUE,
          data |-> [keywords |-> keywords,
                    data |-> TrendsOr(response),
                    best_performing |-> findBestPerforming(TrendsOr(response))]]
    ELSE response

\* compareTrends up to its await
CompareRequest ==
    /\ mounted = "Compare"
    /\ cmpStage = "idle"
    /\ cmpStage' = "waiting"
    /\ \E keywords \in {<<"a">>, <<"a", "b">>} : cmpKeywords' = keywords
    /\ cmpResponse' = JsNull
    /\ cmpResult' = JsNull
    /\ UNCHANGED notCmpVars

\* the rest of compareTrends, once searchTrends has settled
CompareReturn ==
    /\ cmpStage = "waiting"
    /\ cmpStage' = "done"
    /\ \E response \in CmpResponses :
          /\ cmpResponse' = response
          /\ cmpResult' = compareTrends(cmpKeywords, response)
    /\ UNCHANGED <<cmpKeywords, notCmpVars>>

\* the caller is done with the result and may compare again
CompareDone ==
    /\ cmpStage = "done"
    /\ cmpStage' = "idle"
    /\ UNCHANGED <<cmpKeywords, cmpResponse, cmpResult, notCmpVars>>

InitCompare ==
    /\ AnalyzerIdle
    /\ ComponentsIdle
    /\ mounted = "Compare"
    /\ triggers = 0

NextCompare == CompareRequest \/ CompareReturn \/ CompareDone

SpecCompare == InitCompare /\ [][NextCompare]_vars

\* compareTrends has resolved with a comparison
Compared == cmpStage = "done" /\ cmpResult.success /\ "data" \in DOMAIN cmpResult

\* the trends of the answer that was compared
ComparedTrends == TrendsOr(cmpResponse)

\* the sum of the observations of the k-th trend compared
TotalOf(k) ==
    LET v == ComparedTrends[k].search_volume
        RECURSIVE Upto(_)
        Upto(n) == IF n = 0 THEN 0 ELSE Upto(n - 1) + v[n]
    IN  Upto(Len(v))

\* the k-th trend compared has the largest total, and none before it has
FirstLargest(k) ==
    /\ \A j \in 1..Len(ComparedTrends) : TotalOf(j) <= TotalOf(k)
    /\ \A j \in 1..(k - 1) : TotalOf(j) < TotalOf(k)

\* C30: compareTrends reports as best_performing the keyword whose series has
\* the largest total volume (the sum of its observations) together with that
\* total; on a tie it reports the first such keyword in the order of the answer;
\* for an empty list of trends it reports keyword '' with value 0; and the keyword
\* reported is one of the trends returned when the list is not empty.
C30_BestPerforming ==
    Compared =>
        LET best == cmpResult.data.best_performing
        IN  IF ComparedTrends = <<>>
            THEN best.keyword = "" /\ best.value = 0
            ELSE /\ \E k \in 1..Len(ComparedTrends) :
                       /\ FirstLargest(k)
                       /\ best.keyword = ComparedTrends[k].keyword
                       /\ best.value = TotalOf(k)
                 /\ \E k \in 1..Len(ComparedTrends) :
                       best.keyword = ComparedTrends[k].keyword

\* three trends were compared, the second and third of different keywords tie
\* for the largest total, and the second is reported
C30_Witness ==
    /\ Compared
    /\ Len(ComparedTrends) = 3
    /\ TotalOf(1) < TotalOf(2) /\ TotalOf(2) = TotalOf(3)
    /\ ComparedTrends[2].keyword # ComparedTrends[3].keyword
    /\ cmpResult.data.best_performing.keyword = ComparedTrends[2].keyword
    /\ cmpResult.data.best_performing.value = TotalOf(2)

\* an answer without trends was compared
EmptyCompared ==
    Compared /\ "trends" \notin DOMAIN cmpResponse.data
        /\ cmpResult.data.best_performing.keyword = ""

====
